---- MODULE Spec2Model ----
(***************************************************************************)
(* CollabEdit: the synchronization core of the VS Code collaboration       *)
(* extension.  One module, several specifications, one per component:      *)
(*   Spec, SpecEvict, SpecOrder, SpecColor                                 *)
(*               the host (CollabServer): registry, connections, sweep,    *)
(*               relay and broadcast, colour assignment                    *)
(*   SpecRoster  the host with the clients' cached rosters                 *)
(*   SpecDoc     the edit synchronizer (DocumentSync)                      *)
(*   SpecEcho    the edit synchronizer with saves, wired to the client     *)
(*   SpecSync    the initial file synchronization (FileSync)               *)
(*   SpecCompare the comparison of manifests that starts it                *)
(*   SpecBatch   the deletions and the batched FileRequests, on workspaces *)
(*               of more files than one batch holds                        *)
(*   SpecWatch   the suppression set in time, and the file-watch handler   *)
(*   SpecBeat    the host's sweep against one client's heartbeat, in time  *)
(*   SpecClient  the client's connection and its reconnect policy          *)
(* Each specification moves only its own component's variables and holds   *)
(* the other components' variables at their initial values.                *)
(***************************************************************************)
EXTENDS Integers, Sequences, FiniteSets, TLC

(***************************************************************************)
(* Bounds of the model                                                     *)
(***************************************************************************)
\* connections the host accepts in one run of Spec
MaxConns == 2
\* connections the host accepts in one run of SpecEvict and SpecOrder
MaxConnsWide == 3
\* handler invocations in one run of SpecOrder
MaxSteps == 8
\* applyRemoteEdit calls in one run of SpecDoc
MaxCalls == 3
\* the largest version number a document reaches in SpecDoc
MaxVersion == 3
\* files of the workspace in SpecSync
MaxFiles == 2
\* FileContent messages that arrive in one run of SpecSync
MaxArrivals == 4
\* heartbeats the client sends in one run of SpecBeat
MaxBeats == 3
\* the longest a message travels from client to host, in seconds
MaxDelay == 6
\* connection attempts of the client in one run of SpecClient
MaxTries == 12
\* Join messages the host handles in one run
MaxJoins == 12
\* files of the workspaces in SpecBatch
MaxPaths == 22
\* messages waiting at a client, and Join messages handled, in SpecFrame
MaxInbox == 1
MaxRejoins == 2
\* the length of the longest file read in SpecSend, in bytes
MaxLength == 16384
\* the edits made to the document in SpecSave
MaxEdits == 2
\* the changes made on the client in SpecLocal
MaxChanges == 3

(***************************************************************************)
(* Program constants                                                       *)
(***************************************************************************)
\* USER_COLORS.length
PaletteSize == 12
\* the period of the host's sweep (startHeartbeat, 30000 ms), in seconds
SweepPeriod == 30
\* the period of the client's heartbeat (startHeartbeat, 25000 ms), in seconds
BeatPeriod == 25
\* CollabClient.maxReconnectAttempts
maxReconnectAttempts == 10
\* startInitialSync: batchSize
batchSize == 10
\* suppressPath: the delay of its timer (3000 ms), in seconds
SuppressPeriod == 3
\* the number of leading bytes isBinaryFile examines
HeadLength == 8192

Null == "null"
HostId == "host"
\* userIds of the CollabClient instances (generateUserId, fixed per instance)
Users == {"u1", "u2", "u3"}
Conns == 1..MaxConnsWide

\* the message kinds handleClientMessage relays with broadcastExcept
RelayTypes ==
    {"CursorUpdate", "ActiveFileChange", "DocEdit", "FileCreate",
     "FileDelete", "FileRename", "FileSave"}

VARIABLES
    \* ---- host: CollabServer ----
    clients,      \* Map<userId, ClientConnection>, in insertion order
    colorIndex,   \* CollabServer.colorIndex
    readyState,   \* host-side ws.readyState of each connection
    clientId,     \* the closure variable clientId of each handleConnection
    cliOpen,      \* whether the client end of the connection is still open
    owner,        \* the CollabClient (userId) that opened the connection
    out,          \* per connection, the messages the last handler sent on it
    evicted,      \* the connections a sweep has terminated (history)
    quota,        \* connections the host accepts in this run
    sent,         \* per connection, every message sent on it (kept in SpecOrder)
    nsteps,       \* handlers run so far (counted in SpecOrder)
    \* ---- the clients' ends of the connections ----
    inbox,        \* per connection, the messages sent on it and not yet handled
    cachedUsers,  \* per CollabClient, the userIds of CollabClient.users
    lastFrame,    \* the raw frame the last 'message' handler was given, if it was one
    \* ---- edit synchronizer: DocumentSync ----
    documentVersions,    \* Map<path, number>; 0 stands for an absent key
    applyingRemoteEdit,  \* the re-entrancy flag
    calls,               \* the applyRemoteEdit calls, each with its position
    graceTimers,         \* the 50 ms timers that have not fired yet
    emitted,             \* the docEdit events the last handler emitted
    ignored,             \* whether the last handler was an applyRemoteEdit of an own edit
    dirty,               \* per path, whether the document has unsaved changes
    fileSaves,           \* the fileSave events the last handler emitted
    \* ---- initial file synchronization: FileSync ----
    phase,                 \* where startInitialSync is
    toDownload,            \* startInitialSync's toDownload
    pendingFiles,          \* FileSync.pendingFiles
    syncCompleteCallback,  \* whether FileSync.syncCompleteCallback is set
    suppressedPaths,       \* FileSync.suppressedPaths
    requests,              \* the FileRequest messages sent, in order
    writing,               \* per path, the writeReceivedFile calls awaiting their write
    arrivals,              \* FileContent messages received so far
    completions,           \* how many times onComplete has been called
    clientTree,            \* the files of the client's workspace
    hostTree,              \* the files of the host's workspace
    localManifest,         \* compareManifest's localManifest
    toDelete,              \* startInitialSync's toDelete
    \* ---- the suppression set in time, and the file watcher ----
    timers,      \* per path, the time left on each pending timer of suppressPath
    window,      \* per path, the time left of the 3 s after the last suppressPath
    lastEvent,   \* the file-watch event the last handler handled, if it was one
    watchSent,   \* the messages the last fileChange handler sent
    \* ---- the sweep and one client's heartbeat, in time ----
    sweepIn,   \* seconds until the host's sweep timer fires
    beatIn,    \* seconds until the client's heartbeat timer fires
    flight,    \* the client's messages on their way to the host, in order
    beats,     \* heartbeats the client has sent
    slowest,   \* the longest time a heartbeat sent so far travels
    \* ---- client: CollabClient ----
    sock,               \* the state of this.ws, the client's current socket
    connected,          \* CollabClient.connected
    reconnectAttempts,  \* CollabClient.reconnectAttempts
    shouldReconnect,    \* CollabClient.shouldReconnect
    reconnectTimer,     \* whether a reconnect timer is pending
    heartbeatTimer,     \* whether the heartbeat interval is running
    delay,              \* the delay of the last reconnect timer, in ms
    joined,             \* whether a JoinAck has arrived on the current socket
    sinceOpen,          \* connection attempts since a socket last opened
    sinceAck,           \* connection attempts since a JoinAck last arrived
    wire,               \* the messages the last client handler passed to ws.send
    \* ---- starting a session as host: startHost and CollabServer.start ----
    mode,               \* the extension's session mode
    startState,         \* where startHost and the promise of start() are
    heartbeatInterval,  \* whether the host's sweep timer is running
    portInUse,          \* whether another process holds the port
    \* ---- reading a file for sending: FileSync.readFileForSend ----
    buffer,             \* the Buffer safeReadFile returned
    message,            \* the FileContent message built from it, if it has been
    \* ---- the host's 'fileRequest' handler ----
    unserved,           \* the requested paths the handler has not come to yet
    \* ---- joining a session as client: joinSession ----
    joinState,          \* where joinSession and the promise of connect() are
    \* ---- one document saved across the session: FileSave ----
    unsaved,            \* per peer, whether its document has unsaved changes
    upNet,              \* per client, the FileSave messages on their way to the host
    downNet,            \* per client, the FileSave messages on their way to it
    savesSent,          \* the FileSave messages put on a connection so far
    humanSaved,         \* whether the user's save has been made
    editsLeft,          \* the edits the session still makes to the document
    \* ---- the client's own changes: setupClientLocalChanges ----
    localSent,          \* per message type, the messages the client has sent to the host
    unheard,            \* the changes made on the client that no listener heard
    \* ---- the host's 'message' handler, as SpecUnjoined records it ----
    heardOn,            \* the last message handled: its type, whether its connection
                        \* had joined, and the peers registered at that time
    \* ---- CollabClient.users as the array it is (kept in SpecCached) ----
    clientUsers         \* per CollabClient, the userIds of this.users in order

hostVars ==
    <<clients, colorIndex, readyState, clientId, cliOpen, owner, out, evicted,
      quota, sent, nsteps>>

docVars ==
    <<documentVersions, applyingRemoteEdit, calls, graceTimers, emitted, ignored,
      dirty, fileSaves>>

syncVars ==
    <<phase, toDownload, pendingFiles, syncCompleteCallback, suppressedPaths,
      requests, writing, arrivals, completions, clientTree, hostTree,
      localManifest, toDelete>>

rosterVars == <<inbox, cachedUsers, lastFrame>>

watchVars == <<timers, window, lastEvent, watchSent>>

beatVars == <<sweepIn, beatIn, flight, beats, slowest>>

clientVars ==
    <<sock, connected, reconnectAttempts, shouldReconnect, reconnectTimer,
      heartbeatTimer, delay, joined, sinceOpen, sinceAck, wire>>

sessionVars == <<mode, startState, heartbeatInterval, portInUse>>

sendVars == <<buffer, message>>

serveVars == <<unserved>>

joinVars == <<joinState>>

saveVars == <<unsaved, upNet, downNet, savesSent, humanSaved, editsLeft>>

localVars == <<localSent, unheard>>

heardVars == <<heardOn>>

cacheVars == <<clientUsers>>

vars ==
    <<hostVars, rosterVars, docVars, syncVars, watchVars, beatVars, clientVars,
      sessionVars, sendVars, serveVars, joinVars, saveVars, localVars, heardVars,
      cacheVars>>

(***************************************************************************)
(* The registry: a JavaScript Map keyed by userId, iterated in insertion   *)
(* order.  Map.set on an existing key keeps the key's position.            *)
(***************************************************************************)
Has(reg, u) == \E i \in DOMAIN reg : reg[i].userId = u

IndexOf(reg, u) == CHOOSE i \in DOMAIN reg : reg[i].userId = u

MapGet(reg, u) == reg[IndexOf(reg, u)]

MapSet(reg, e) ==
    IF Has(reg, e.userId)
    THEN [reg EXCEPT ![IndexOf(reg, e.userId)] = e]
    ELSE Append(reg, e)

MapDelete(reg, u) == SelectSeq(reg, LAMBDA e : e.userId # u)

\* the UserInfo of a registry entry, as it goes on the wire
UserOf(e) == [userId |-> e.userId, color |-> e.color]

\* constructor: the host holds USER_COLORS[0]
hostUser == [userId |-> HostId, color |-> 0]

\* getAllUsers with the host's own entry last: the roster claim must tell it
\* from getAllUsers
getAllUsers_hostLast(reg) == [i \in DOMAIN reg |-> UserOf(reg[i])] \o <<hostUser>>

\* getAllUsers: the host's own entry first, then the registry in Map order
getAllUsers(reg) == <<hostUser>> \o [i \in DOMAIN reg |-> UserOf(reg[i])]

(***************************************************************************)
(* Messages and sends.  n and k are history fields: the number of the      *)
(* handler that created the message, and the message's position among      *)
(* those that handler created.                                             *)
(***************************************************************************)
Msg(type, userId, users) ==
    [type |-> type, userId |-> userId, users |-> users, n |-> 0, k |-> 0]

\* a send that puts the message at the front of c's stream: the ordering
\* claim must tell it from SendOn
SendOn_front(h, c, m) ==
    [h EXCEPT !.out[c] = <<m>> \o @,
              !.sent[c] = IF h.keep THEN <<m>> \o @ ELSE @]

\* ws.send on connection c: the message joins the end of c's stream
SendOn(h, c, m) ==
    [h EXCEPT !.out[c] = Append(@, m),
              !.sent[c] = IF h.keep THEN Append(@, m) ELSE @]

\* serializeMessage: the handler has created one more message
Stamp(h, m) == [m EXCEPT !.n = h.n, !.k = h.k + 1]

sendTo(h, u, m) ==
    LET h1 == [h EXCEPT !.k = @ + 1]
    IN  IF Has(h.clients, u) /\ h.readyState[MapGet(h.clients, u).ws] = "OPEN"
        THEN SendOn(h1, MapGet(h.clients, u).ws, Stamp(h, m))
        ELSE h1

RECURSIVE SendLoop(_, _, _, _, _)
SendLoop(h, reg, i, excl, m) ==
    IF i > Len(reg) THEN h
    ELSE SendLoop(IF reg[i].userId # excl /\ h.readyState[reg[i].ws] = "OPEN"
                  THEN SendOn(h, reg[i].ws, m)
                  ELSE h,
                  reg, i + 1, excl, m)

broadcast(h, m) ==
    SendLoop([h EXCEPT !.k = @ + 1], h.clients, 1, Null, Stamp(h, m))

\* broadcastExcept without the exclusion: the relay claim must tell it from
\* broadcastExcept
broadcastExcept_toAll(h, excludeUserId, m) == broadcast(h, m)

broadcastExcept(h, excludeUserId, m) ==
    SendLoop([h EXCEPT !.k = @ + 1], h.clients, 1, excludeUserId, Stamp(h, m))

removeClient(h, u) ==
    IF Has(h.clients, u)
    THEN broadcast([h EXCEPT !.clients = MapDelete(@, u)], Msg("UserLeft", u, <<>>))
    ELSE h

\* ws.terminate(): a socket that is not closed yet starts closing
terminate(h, c) ==
    IF h.readyState[c] = "OPEN" THEN [h EXCEPT !.readyState[c] = "CLOSING"] ELSE h

\* the body of the setInterval callback of startHeartbeat, over the entries
\* of the registry as they were when the sweep began
RECURSIVE SweepLoop(_, _, _)
SweepLoop(h, snap, i) ==
    IF i > Len(snap) THEN h
    ELSE LET e == snap[i]
         IN  IF ~e.isAlive
             THEN SweepLoop(removeClient(terminate(h, e.ws), e.userId), snap, i + 1)
             ELSE SweepLoop([h EXCEPT !.clients[IndexOf(h.clients, e.userId)].isAlive = FALSE],
                            snap, i + 1)

\* the mutation with a CursorUpdate also marking the sender alive: the
\* alive-flag claim must tell it from Mutate
Mutate_marksAlive(h, cid, type) ==
    IF Has(h.clients, cid) /\ type = "CursorUpdate"
    THEN [h EXCEPT !.clients[IndexOf(h.clients, cid)].cursor = "pos",
                   !.clients[IndexOf(h.clients, cid)].isAlive = TRUE]
    ELSE IF Has(h.clients, cid) /\ type = "ActiveFileChange"
    THEN [h EXCEPT !.clients[IndexOf(h.clients, cid)].activeFile = "file"]
    ELSE h

\* handleClientMessage without its test of clientId: the claim about
\* connections that have not joined must tell it from handleClientMessage
handleClientMessage_unjoined(h, cid, type) ==
    IF type \in {"FileManifestRequest", "FileRequest"} THEN h
    ELSE broadcastExcept(h, cid, Msg(type, cid, <<>>))

\* handleClientMessage: the mutation of the sender's own registry entry
Mutate(h, cid, type) ==
    IF Has(h.clients, cid) /\ type = "CursorUpdate"
    THEN [h EXCEPT !.clients[IndexOf(h.clients, cid)].cursor = "pos"]
    ELSE IF Has(h.clients, cid) /\ type = "ActiveFileChange"
    THEN [h EXCEPT !.clients[IndexOf(h.clients, cid)].activeFile = "file"]
    ELSE h

handleClientMessage(h, cid, type) ==
    IF cid = Null THEN h
    ELSE IF type \in {"FileManifestRequest", "FileRequest"} THEN h
    ELSE broadcastExcept(Mutate(h, cid, type), cid, Msg(type, cid, <<>>))

(***************************************************************************)
(* The host as a state machine                                             *)
(***************************************************************************)
\* whether this run keeps the streams (SpecOrder does)
Keeping == nsteps >= 0

\* the state a handler starts from: nothing sent yet
Host ==
    [clients |-> clients, readyState |-> readyState,
     out |-> [c \in Conns |-> <<>>], sent |-> sent, keep |-> Keeping,
     n |-> nsteps + 1, k |-> 0]

SetHost(h) ==
    /\ clients' = h.clients
    /\ readyState' = h.readyState
    /\ out' = h.out
    /\ sent' = h.sent

\* a handler that sends nothing
NoSend ==
    /\ out' = [d \in Conns |-> <<>>]
    /\ sent' = sent

\* one more handler has run; only SpecOrder counts them, and stops at MaxSteps
Step ==
    /\ nsteps < MaxSteps
    /\ nsteps' = IF Keeping THEN nsteps + 1 ELSE nsteps

HostInit(q, s) ==
    /\ clients = <<>>
    /\ colorIndex = 1
    /\ readyState = [c \in Conns |-> "NONE"]
    /\ clientId = [c \in Conns |-> Null]
    /\ cliOpen = [c \in Conns |-> FALSE]
    /\ owner = [c \in Conns |-> Null]
    /\ out = [c \in Conns |-> <<>>]
    /\ evicted = {}
    /\ quota = q
    /\ sent = [c \in Conns |-> <<>>]
    /\ nsteps = s

\* a CollabClient opens a connection (connect); it has at most one open
\* socket at a time, and the host's 'connection' event runs handleConnection
Connect(c, u) ==
    /\ c <= quota
    /\ readyState[c] = "NONE"
    /\ \A d \in Conns : d < c => readyState[d] # "NONE"
    /\ \A d \in Conns : owner[d] = u => ~cliOpen[d]
    /\ readyState' = [readyState EXCEPT ![c] = "OPEN"]
    /\ cliOpen' = [cliOpen EXCEPT ![c] = TRUE]
    /\ owner' = [owner EXCEPT ![c] = u]
    /\ NoSend /\ Step
    /\ UNCHANGED <<clients, colorIndex, clientId, evicted, quota>>

\* the client end of the connection goes away: the client closed it, or its
\* network dropped; the host has not noticed yet
ClientDrop(c) ==
    /\ cliOpen[c]
    /\ cliOpen' = [cliOpen EXCEPT ![c] = FALSE]
    /\ NoSend /\ Step
    /\ UNCHANGED <<clients, colorIndex, readyState, clientId, owner, evicted, quota>>

\* the Join branch without the increment of colorIndex: the colour-index
\* claim must tell it from Join
Join_sameIndex(c) ==
    /\ readyState[c] = "OPEN"
    /\ clientId[c] = Null
    /\ colorIndex <= MaxJoins
    /\ LET u == owner[c]
           color == colorIndex % PaletteSize
           e == [userId |-> u, ws |-> c, isAlive |-> TRUE, color |-> color,
                 activeFile |-> Null, cursor |-> Null]
           h1 == [Host EXCEPT !.clients = MapSet(@, e)]
           h2 == sendTo(h1, u, Msg("JoinAck", u, getAllUsers(h1.clients)))
           h3 == broadcastExcept(h2, u, Msg("UserJoined", u, <<>>))
       IN  /\ SetHost(h3)
           /\ clientId' = [clientId EXCEPT ![c] = u]
    /\ Step
    /\ UNCHANGED <<colorIndex, cliOpen, owner, evicted, quota>>

\* the 'message' handler, Join branch.  The client sends Join once, as the
\* first message on a connection it opened.
Join(c) ==
    /\ readyState[c] = "OPEN"
    /\ clientId[c] = Null
    /\ colorIndex <= MaxJoins
    /\ LET u == owner[c]
           color == colorIndex % PaletteSize
           e == [userId |-> u, ws |-> c, isAlive |-> TRUE, color |-> color,
                 activeFile |-> Null, cursor |-> Null]
           h1 == [Host EXCEPT !.clients = MapSet(@, e)]
           h2 == sendTo(h1, u, Msg("JoinAck", u, getAllUsers(h1.clients)))
           h3 == broadcastExcept(h2, u, Msg("UserJoined", u, <<>>))
       IN  /\ SetHost(h3)
           /\ colorIndex' = colorIndex + 1
           /\ clientId' = [clientId EXCEPT ![c] = u]
    /\ Step
    /\ UNCHANGED <<cliOpen, owner, evicted, quota>>

\* the Heartbeat branch without the assignment to isAlive: the heartbeat
\* claim must tell it from Heartbeat
Heartbeat_unmarked(c) ==
    /\ readyState[c] = "OPEN"
    /\ LET cid == clientId[c]
       IN  IF cid # Null /\ Has(clients, cid)
           THEN SetHost(sendTo(Host, cid, Msg("HeartbeatAck", Null, <<>>)))
           ELSE SetHost(Host)
    /\ Step
    /\ UNCHANGED <<colorIndex, clientId, cliOpen, owner, evicted, quota>>

\* the 'message' handler, Heartbeat branch
Heartbeat(c) ==
    /\ readyState[c] = "OPEN"
    /\ LET cid == clientId[c]
       IN  IF cid # Null /\ Has(clients, cid)
           THEN SetHost(sendTo([Host EXCEPT !.clients[IndexOf(clients, cid)].isAlive = TRUE],
                               cid, Msg("HeartbeatAck", Null, <<>>)))
           ELSE SetHost(Host)
    /\ Step
    /\ UNCHANGED <<colorIndex, clientId, cliOpen, owner, evicted, quota>>

\* the 'message' handler, every other message kind
ClientMessage(c, type) ==
    /\ readyState[c] = "OPEN"
    /\ SetHost(handleClientMessage(Host, clientId[c], type))
    /\ Step
    /\ UNCHANGED <<colorIndex, clientId, cliOpen, owner, evicted, quota>>

\* the host's socket learns that the peer is gone (close frame, FIN, reset):
\* the library moves it to CLOSING and will emit 'close'
PeerClose(c) ==
    /\ readyState[c] = "OPEN"
    /\ ~cliOpen[c]
    /\ readyState' = [readyState EXCEPT ![c] = "CLOSING"]
    /\ NoSend /\ Step
    /\ UNCHANGED <<clients, colorIndex, clientId, cliOpen, owner, evicted, quota>>

\* the 'error' handler; the library emits 'close' after it
ErrorEvent(c) ==
    /\ readyState[c] = "OPEN"
    /\ LET h1 == [Host EXCEPT !.readyState[c] = "CLOSING"]
       IN  SetHost(IF clientId[c] # Null THEN removeClient(h1, clientId[c]) ELSE h1)
    /\ Step
    /\ UNCHANGED <<colorIndex, clientId, cliOpen, owner, evicted, quota>>

\* the 'close' handler
CloseEvent(c) ==
    /\ readyState[c] = "CLOSING"
    /\ LET h1 == [Host EXCEPT !.readyState[c] = "CLOSED"]
       IN  SetHost(IF clientId[c] # Null THEN removeClient(h1, clientId[c]) ELSE h1)
    /\ Step
    /\ UNCHANGED <<colorIndex, clientId, cliOpen, owner, evicted, quota>>

\* the setInterval callback of startHeartbeat
Sweep ==
    /\ SetHost(SweepLoop(Host, clients, 1))
    /\ evicted' = evicted \cup {clients[i].ws : i \in {j \in DOMAIN clients : ~clients[j].isAlive}}
    /\ Step
    /\ UNCHANGED <<colorIndex, clientId, cliOpen, owner, quota>>


\* a closed connection is forgotten: its socket and the closure of its
\* handleConnection are garbage, and a later connection is a fresh one
Recycle(c) ==
    /\ readyState[c] = "CLOSED"
    /\ ~cliOpen[c]
    /\ readyState' = [readyState EXCEPT ![c] = "NONE"]
    /\ clientId' = [clientId EXCEPT ![c] = Null]
    /\ owner' = [owner EXCEPT ![c] = Null]
    /\ evicted' = evicted \ {c}
    /\ NoSend /\ Step
    /\ UNCHANGED <<clients, colorIndex, cliOpen, quota>>

(***************************************************************************)
(* The clients' ends of the connections: what the host sends on a          *)
(* connection waits in its inbox until the client's 'message' handler      *)
(* handles it.                                                             *)
(***************************************************************************)
\* a frame as the text of a WebSocket message: whether JSON.parse accepts
\* it, and the value it parses to (whether the value is truthy, and its
\* type and userId properties)
NoType == "undefined"

Frame(parses, truthy, type, userId) ==
    [parses |-> parses, truthy |-> truthy, type |-> type, userId |-> userId]

\* no frame
NoFrame == Frame(FALSE, FALSE, "none", Null)

RosterStart ==
    /\ inbox = [c \in Conns |-> <<>>]
    /\ cachedUsers = [u \in Users |-> {}]
    /\ lastFrame = NoFrame

\* the userIds of a roster
UserIds(roster) == {roster[i].userId : i \in DOMAIN roster}

\* CollabClient.handleMessage: the userIds of this.users after the message
handleMessage(cached, m) ==
    IF m.type = "JoinAck" THEN UserIds(m.users)
    ELSE IF m.type = "UserJoined" THEN cached \cup {m.userId}
    ELSE IF m.type = "UserLeft" THEN cached \ {m.userId}
    ELSE cached

CacheStart == clientUsers = [u \in Users |-> <<>>]

\* CollabClient.handleMessage: this.users after the message, as the array
\* of its userIds
usersAfter(list, m) ==
    IF m.type = "JoinAck" THEN [i \in DOMAIN m.users |-> m.users[i].userId]
    ELSE IF m.type = "UserJoined" THEN Append(list, m.userId)
    ELSE IF m.type = "UserLeft" THEN SelectSeq(list, LAMBDA u : u # m.userId)
    ELSE list

\* what a host handler sent travels to the clients
Transmit ==
    /\ inbox' = [c \in Conns |-> IF cliOpen'[c] THEN inbox[c] \o out'[c] ELSE <<>>]
    /\ lastFrame' = NoFrame
    /\ UNCHANGED cachedUsers

\* the client's 'message' handler handles the next message of connection c
Deliver(c) ==
    /\ cliOpen[c]
    /\ inbox[c] # <<>>
    /\ inbox' = [inbox EXCEPT ![c] = Tail(@)]
    /\ cachedUsers' = [cachedUsers EXCEPT ![owner[c]] = handleMessage(@, Head(inbox[c]))]
    /\ lastFrame' = NoFrame
    /\ UNCHANGED hostVars

\* the same handler, with this.users kept as an array
DeliverToArray(c) ==
    /\ Deliver(c)
    /\ clientUsers' = [clientUsers EXCEPT ![owner[c]] = usersAfter(@, Head(inbox[c]))]

(***************************************************************************)
(* The edit synchronizer (DocumentSync).  applyRemoteEdit is an async      *)
(* function: a call stops at each await, and other calls, timers and       *)
(* change events run in between.                                           *)
(***************************************************************************)
DocPaths == {"a.ts", "b.ts"}

\* DocumentSync.userId and the userId of another peer
SelfId == "u1"
PeerId == "u2"

\* the state a handler of the synchronizer starts from: nothing emitted yet
Doc ==
    [documentVersions |-> documentVersions,
     applyingRemoteEdit |-> applyingRemoteEdit,
     emitted |-> <<>>, ignored |-> FALSE]

SetDoc(d) ==
    /\ documentVersions' = d.documentVersions
    /\ applyingRemoteEdit' = d.applyingRemoteEdit
    /\ emitted' = d.emitted
    /\ ignored' = d.ignored

\* handleDocumentChange that sends the stored version without incrementing
\* it: the local-edit claim must tell it from handleDocumentChange
handleDocumentChange_sameVersion(d, path, cause) ==
    IF d.applyingRemoteEdit THEN d
    ELSE [d EXCEPT !.emitted = Append(@, [path |-> path,
                                          version |-> d.documentVersions[path],
                                          userId |-> SelfId, cause |-> cause])]

\* handleDocumentChange for a change of the file at path; cause tells a
\* change the user typed ("local") from one applyEdit made ("remote")
handleDocumentChange(d, path, cause) ==
    IF d.applyingRemoteEdit THEN d
    ELSE LET version == d.documentVersions[path] + 1
         IN  [d EXCEPT !.documentVersions[path] = version,
                       !.emitted = Append(@, [path |-> path, version |-> version,
                                              userId |-> SelfId, cause |-> cause])]

DocStart ==
    /\ documentVersions = [p \in DocPaths |-> 0]
    /\ applyingRemoteEdit = FALSE
    /\ calls = <<>>
    /\ graceTimers = 0
    /\ emitted = <<>>
    /\ ignored = FALSE
    /\ dirty = [p \in DocPaths |-> FALSE]
    /\ fileSaves = <<>>

\* a handler that saves no document
NoSave ==
    /\ fileSaves' = <<>>
    /\ UNCHANGED dirty

\* the user edits the document at path: onDidChangeTextDocument
LocalChange(path) ==
    /\ applyingRemoteEdit \/ documentVersions[path] < MaxVersion
    /\ SetDoc(handleDocumentChange(Doc, path, "local"))
    /\ dirty' = [dirty EXCEPT ![path] = TRUE]
    /\ fileSaves' = <<>>
    /\ UNCHANGED <<calls, graceTimers>>

\* applyRemoteEdit without the test of msg.userId: the own-edit claim must
\* tell it from ApplyRemoteEdit
ApplyRemoteEdit_anySender(path, version, userId) ==
    /\ Len(calls) < MaxCalls
    /\ calls' = Append(calls, [pc |-> "opening", path |-> path,
                               version |-> version, notified |-> FALSE])
    /\ SetDoc(Doc)
    /\ UNCHANGED graceTimers
    /\ NoSave

\* applyRemoteEdit that returns when msg.version is not above the stored
\* version: the version claim must tell it from ApplyRemoteEdit
ApplyRemoteEdit_dropsStale(path, version, userId) ==
    /\ Len(calls) < MaxCalls
    /\ calls' = IF userId = SelfId \/ version <= documentVersions[path] THEN calls
                ELSE Append(calls, [pc |-> "opening", path |-> path,
                                    version |-> version, notified |-> FALSE])
    /\ SetDoc(Doc)
    /\ UNCHANGED graceTimers
    /\ NoSave

\* applyRemoteEdit(msg), up to its first await (openTextDocument); a
\* message of the local user makes it return at once
ApplyRemoteEdit(path, version, userId) ==
    /\ Len(calls) < MaxCalls
    /\ calls' = IF userId = SelfId THEN calls
                ELSE Append(calls, [pc |-> "opening", path |-> path,
                                    version |-> version, notified |-> FALSE])
    /\ SetDoc([Doc EXCEPT !.ignored = (userId = SelfId)])
    /\ UNCHANGED graceTimers
    /\ NoSave

\* openTextDocument resolves: the call raises the flag and awaits applyEdit
OpenResolves(i) ==
    /\ calls[i].pc = "opening"
    /\ calls' = [calls EXCEPT ![i].pc = "applying"]
    /\ SetDoc([Doc EXCEPT !.applyingRemoteEdit = TRUE])
    /\ UNCHANGED graceTimers
    /\ NoSave

\* openTextDocument rejects: the call returns
OpenRejects(i) ==
    /\ calls[i].pc = "opening"
    /\ calls' = [calls EXCEPT ![i].pc = "done"]
    /\ SetDoc(Doc)
    /\ UNCHANGED graceTimers
    /\ NoSave

\* the editor applies the edit of call i and reports the change:
\* onDidChangeTextDocument, before applyEdit resolves
ChangeEvent(i) ==
    /\ calls[i].pc = "applying"
    /\ ~calls[i].notified
    /\ applyingRemoteEdit \/ documentVersions[calls[i].path] < MaxVersion
    /\ calls' = [calls EXCEPT ![i].notified = TRUE]
    /\ SetDoc(handleDocumentChange(Doc, calls[i].path, "remote"))
    /\ dirty' = [dirty EXCEPT ![calls[i].path] = TRUE]
    /\ fileSaves' = <<>>
    /\ UNCHANGED graceTimers

\* applyEdit resolves: the call stores the message's version and, in its
\* finally block, starts the 50 ms timer
ApplyResolves(i) ==
    /\ calls[i].pc = "applying"
    /\ calls[i].notified
    /\ calls' = [calls EXCEPT ![i].pc = "done"]
    /\ SetDoc([Doc EXCEPT !.documentVersions[calls[i].path] = calls[i].version])
    /\ graceTimers' = graceTimers + 1
    /\ NoSave

\* applyEdit rejects without having changed the document: catch, then finally
ApplyRejects(i) ==
    /\ calls[i].pc = "applying"
    /\ ~calls[i].notified
    /\ calls' = [calls EXCEPT ![i].pc = "done"]
    /\ SetDoc(Doc)
    /\ graceTimers' = graceTimers + 1
    /\ NoSave

\* a 50 ms timer fires
GraceTimerFires ==
    /\ graceTimers > 0
    /\ graceTimers' = graceTimers - 1
    /\ SetDoc([Doc EXCEPT !.applyingRemoteEdit = FALSE])
    /\ UNCHANGED calls
    /\ NoSave

\* handleDocumentSave: the fileSave event for a saved document
handleDocumentSave(path, cause) ==
    <<[path |-> path, userId |-> SelfId, cause |-> cause]>>

\* the user saves the document at path: onDidSaveTextDocument
LocalSave(path) ==
    /\ dirty[path]
    /\ dirty' = [dirty EXCEPT ![path] = FALSE]
    /\ fileSaves' = handleDocumentSave(path, "local")
    /\ SetDoc(Doc)
    /\ UNCHANGED <<calls, graceTimers>>

\* applyRemoteSave that does nothing while a remote edit is being applied:
\* the remote-save claim must tell it from ApplyRemoteSave
ApplyRemoteSave_whenIdle(path, opens) ==
    /\ dirty[path] => opens
    /\ IF opens /\ dirty[path] /\ ~applyingRemoteEdit
       THEN /\ dirty' = [dirty EXCEPT ![path] = FALSE]
            /\ fileSaves' = handleDocumentSave(path, "remote")
       ELSE NoSave
    /\ SetDoc(Doc)
    /\ UNCHANGED <<calls, graceTimers>>

\* the 'fileSave' handler of a received FileSave: applyRemoteSave(path),
\* its awaits taken in one step.  opens tells whether openTextDocument
\* resolves, which it does for a document that is open with unsaved
\* changes; document.save() of a dirty document raises
\* onDidSaveTextDocument, which runs handleDocumentSave
ApplyRemoteSave(path, opens) ==
    /\ dirty[path] => opens
    /\ IF opens /\ dirty[path]
       THEN /\ dirty' = [dirty EXCEPT ![path] = FALSE]
            /\ fileSaves' = handleDocumentSave(path, "remote")
       ELSE NoSave
    /\ SetDoc(Doc)
    /\ UNCHANGED <<calls, graceTimers>>

\* setupClientLocalChanges: the client sends every docEdit and fileSave
\* event of its synchronizer to the host
clientSend ==
    [i \in DOMAIN emitted |->
        [type |-> "DocEdit", path |-> emitted[i].path, cause |-> emitted[i].cause]]
    \o [i \in DOMAIN fileSaves |->
        [type |-> "FileSave", path |-> fileSaves[i].path, cause |-> fileSaves[i].cause]]

(***************************************************************************)
(* The initial file synchronization (FileSync), on the joining client.     *)
(* A manifest maps each path to the hash of its content, 0 for a path the  *)
(* manifest does not hold.  A file tree maps each path to the bytes of the *)
(* file, 0 for a path that has no file.  The bytes are one of:             *)
(*   1  text, valid UTF-8, no NUL byte                                     *)
(*   2  bytes with a NUL byte among the first 8192                         *)
(*   3  bytes without a NUL byte that are not valid UTF-8 (Latin-1 text)   *)
(*   4  the bytes of 3 with each invalid sequence replaced by the UTF-8    *)
(*      encoding of U+FFFD                                                 *)
(***************************************************************************)
SyncPaths == 1..MaxFiles

\* the bytes a file of a workspace holds before the synchronization
Contents == 1..3

\* computeHash: the MD5 digest, which tells any two of these contents apart
computeHash(bytes) == 100 + bytes

Manifests == [SyncPaths -> {0} \cup {computeHash(c) : c \in Contents}]

Trees == [SyncPaths -> {0} \cup Contents]

\* generateManifest: the hash of every file of the tree
generateManifest(tree) ==
    [p \in DOMAIN tree |-> IF tree[p] = 0 THEN 0 ELSE computeHash(tree[p])]

\* isBinaryFile: a NUL byte among the first 8192 bytes
isBinaryFile(bytes) == bytes = 2

\* Buffer.toString('utf8'): every invalid sequence decodes to U+FFFD; the
\* string is named by its UTF-8 encoding
toStringUtf8(bytes) == <<"string", IF bytes = 3 THEN 4 ELSE bytes>>

\* Buffer.toString('base64')
toStringBase64(bytes) == <<"base64", bytes>>

\* readFileForSend: the FileContent message for a file that holds bytes
readFileForSend(bytes) ==
    IF isBinaryFile(bytes)
    THEN [encoding |-> "base64", content |-> toStringBase64(bytes)]
    ELSE [encoding |-> "utf8", content |-> toStringUtf8(bytes)]

\* the bytes safeWriteFile writes for a FileContent message:
\* Buffer.from(content, 'base64'), or the UTF-8 encoding of the string
writtenBytes(msg) == msg.content[2]

\* the elements of a set of paths in ascending order (the order of the
\* remote manifest)
RECURSIVE InOrder(_)
InOrder(S) ==
    IF S = {} THEN <<>>
    ELSE LET least == CHOOSE x \in S : \A y \in S : x <= y
         IN  <<least>> \o InOrder(S \ {least})

Range(seq) == {seq[i] : i \in DOMAIN seq}

Min(a, b) == IF a <= b THEN a ELSE b

\* compareManifest that takes a file the local copy holds for up to date,
\* whatever its hash: the comparison claim must tell it from compareManifest
compareManifest_byPath(local, remote) ==
    [toDownload |-> InOrder({p \in DOMAIN remote : remote[p] # 0 /\ local[p] = 0}),
     toDelete |-> InOrder({p \in DOMAIN local : local[p] # 0 /\ remote[p] = 0})]

\* compareManifest: download what the remote holds and the local copy lacks
\* or holds with another hash; delete what only the local copy holds
compareManifest(local, remote) ==
    [toDownload |-> InOrder({p \in DOMAIN remote : remote[p] # 0 /\ local[p] # remote[p]}),
     toDelete |-> InOrder({p \in DOMAIN local : local[p] # 0 /\ remote[p] = 0})]

\* the FileRequest loop with slices one path too long, paths.slice(i, i +
\* batchSize + 1): the batching claim must tell it from Batches
Batches_overlapping(paths) ==
    [b \in 1..((Len(paths) + batchSize - 1) \div batchSize) |->
        SubSeq(paths, (b - 1) * batchSize + 1, Min(b * batchSize + 1, Len(paths)))]

\* the batches of the FileRequest loop: paths.slice(i, i + batchSize)
Batches(paths) ==
    [b \in 1..((Len(paths) + batchSize - 1) \div batchSize) |->
        SubSeq(paths, (b - 1) * batchSize + 1, Min(b * batchSize, Len(paths)))]

\* writeReceivedFile that leaves the callback set after calling it: the
\* completion claim must tell it from finishWrite
finishWrite_keepsCallback(f, path) ==
    LET rest == f.pendingFiles \ {path}
    IN  IF rest = {} /\ f.syncCompleteCallback
        THEN [pendingFiles |-> rest, syncCompleteCallback |-> TRUE,
              completions |-> f.completions + 1]
        ELSE [f EXCEPT !.pendingFiles = rest]

\* writeReceivedFile after its await: the path leaves the pending set and,
\* if the set is empty and a callback is set, the callback runs and is cleared
finishWrite(f, path) ==
    LET rest == f.pendingFiles \ {path}
    IN  IF rest = {} /\ f.syncCompleteCallback
        THEN [pendingFiles |-> rest, syncCompleteCallback |-> FALSE,
              completions |-> f.completions + 1]
        ELSE [f EXCEPT !.pendingFiles = rest]

\* the client's workspace holds the files of mine and the host's those of
\* theirs when the client joins
SyncFrom(mine, theirs) ==
    /\ clientTree = mine
    /\ hostTree = theirs
    /\ localManifest = generateManifest(mine)
    /\ toDelete = <<>>
    /\ phase = "idle"
    /\ toDownload = <<>>
    /\ pendingFiles = {}
    /\ syncCompleteCallback = FALSE
    /\ suppressedPaths = {}
    /\ requests = <<>>
    /\ writing = [p \in SyncPaths |-> 0]
    /\ arrivals = 0
    /\ completions = 0

SyncStart == SyncFrom([p \in SyncPaths |-> 0], [p \in SyncPaths |-> 0])

\* the 'fileManifest' handler: startInitialSync up to the end of its awaits
\* (compareManifest, then deleteFile for each surplus file)
ManifestArrives(local, remote) ==
    /\ phase = "idle"
    /\ remote = generateManifest(hostTree)
    /\ local = generateManifest(clientTree)
    /\ phase' = "comparing"
    /\ localManifest' = local
    /\ toDownload' = compareManifest(local, remote).toDownload
    /\ toDelete' = compareManifest(local, remote).toDelete
    /\ suppressedPaths' = suppressedPaths \cup Range(toDelete')
    /\ clientTree' = [p \in DOMAIN clientTree |->
                        IF p \in Range(toDelete') THEN 0 ELSE clientTree[p]]
    /\ UNCHANGED <<hostTree, pendingFiles, syncCompleteCallback, requests, writing,
                   arrivals, completions>>

\* startInitialSync that waits for FileContent although it has nothing to
\* download: the empty-download claim must tell it from SyncBegins
SyncBegins_alwaysWaits ==
    /\ phase = "comparing"
    /\ phase' = "syncing"
    /\ pendingFiles' = Range(toDownload)
    /\ syncCompleteCallback' = TRUE
    /\ requests' = Batches(toDownload)
    /\ UNCHANGED <<completions, toDownload, suppressedPaths, writing, arrivals,
                   clientTree, hostTree, localManifest, toDelete>>

\* startInitialSync after its awaits: complete at once, or fill the pending
\* set, keep the callback and request the files in batches
SyncBegins ==
    /\ phase = "comparing"
    /\ IF Len(toDownload) = 0
       THEN /\ phase' = "done"
            /\ completions' = completions + 1
            /\ UNCHANGED <<pendingFiles, syncCompleteCallback, requests>>
       ELSE /\ phase' = "syncing"
            /\ pendingFiles' = Range(toDownload)
            /\ syncCompleteCallback' = TRUE
            /\ requests' = Batches(toDownload)
            /\ UNCHANGED completions
    /\ UNCHANGED <<toDownload, suppressedPaths, writing, arrivals, clientTree, hostTree,
                   localManifest, toDelete>>

\* the 'fileContent' handler: writeReceivedFile up to its await
\* (safeWriteFile); the host sends a FileContent for a file it can read
FileContentArrives(path) ==
    /\ arrivals < MaxArrivals
    /\ hostTree[path] # 0
    /\ arrivals' = arrivals + 1
    /\ suppressedPaths' = suppressedPaths \cup {path}
    /\ writing' = [writing EXCEPT ![path] = @ + 1]
    /\ UNCHANGED <<phase, toDownload, pendingFiles, syncCompleteCallback, requests,
                   completions, clientTree, hostTree, localManifest, toDelete>>

\* safeWriteFile resolves: the rest of writeReceivedFile runs
WriteResolves(path) ==
    /\ writing[path] > 0
    /\ writing' = [writing EXCEPT ![path] = @ - 1]
    /\ LET f == finishWrite([pendingFiles |-> pendingFiles,
                             syncCompleteCallback |-> syncCompleteCallback,
                             completions |-> completions], path)
       IN  /\ pendingFiles' = f.pendingFiles
           /\ syncCompleteCallback' = f.syncCompleteCallback
           /\ completions' = f.completions
    /\ clientTree' = [clientTree EXCEPT ![path] = writtenBytes(readFileForSend(hostTree[path]))]
    /\ UNCHANGED <<phase, toDownload, suppressedPaths, requests, arrivals, hostTree,
                   localManifest, toDelete>>

\* safeWriteFile rejects: writeReceivedFile throws and the path stays pending
WriteRejects(path) ==
    /\ writing[path] > 0
    /\ writing' = [writing EXCEPT ![path] = @ - 1]
    /\ UNCHANGED <<phase, toDownload, pendingFiles, syncCompleteCallback,
                   suppressedPaths, requests, arrivals, completions, clientTree,
                   hostTree, localManifest, toDelete>>

\* the 3 s timer of suppressPath fires
SuppressTimerFires(path) ==
    /\ path \in suppressedPaths
    /\ suppressedPaths' = suppressedPaths \ {path}
    /\ UNCHANGED <<phase, toDownload, pendingFiles, syncCompleteCallback,
                   requests, writing, arrivals, completions, clientTree, hostTree,
                   localManifest, toDelete>>


(***************************************************************************)
(* The suppression set in time (FileSync.suppressPath), and the handler of *)
(* file-watch events, which consults it.  Time advances in seconds.        *)
(***************************************************************************)
WatchRoles == {"host", "client"}

FileChangeTypes == {"created", "changed", "deleted"}

\* the last handler did not handle a file-watch event
NoEvent == [role |-> Null, type |-> "none", path |-> 0]

isSuppressed(paths, relativePath) == relativePath \in paths

\* the 'fileChange' handler without the test of isSuppressed: the
\* suppression claim must tell it from fileChange
fileChange_unchecked(paths, role, type, path, data) ==
    LET via == IF role = "host" THEN "broadcast" ELSE "send"
    IN  IF type = "created" /\ data # Null
        THEN <<[type |-> "FileCreate", path |-> path, via |-> via]>>
        ELSE IF type = "deleted"
        THEN <<[type |-> "FileDelete", path |-> path, via |-> via]>>
        ELSE <<>>

\* the 'fileChange' handler of the host (server.broadcast) and of a client
\* (client.send): the messages it sends; data is what readFileContent
\* returns, Null when the file cannot be read
fileChange(paths, role, type, path, data) ==
    IF isSuppressed(paths, path) THEN <<>>
    ELSE fileChange_unchecked(paths, role, type, path, data)

WatchStart ==
    /\ timers = [p \in SyncPaths |-> {}]
    /\ window = [p \in SyncPaths |-> 0]
    /\ lastEvent = NoEvent
    /\ watchSent = <<>>

\* suppressPath(path), called by writeReceivedFile, createFile, deleteFile
\* and renameFile
SuppressPath(path) ==
    /\ suppressedPaths' = suppressedPaths \cup {path}
    /\ timers' = [timers EXCEPT ![path] = @ \cup {SuppressPeriod}]
    /\ window' = [window EXCEPT ![path] = SuppressPeriod]
    /\ lastEvent' = NoEvent
    /\ watchSent' = <<>>

\* a timer of suppressPath(path) is due and its callback runs
SuppressTimerDue(path) ==
    /\ 0 \in timers[path]
    /\ timers' = [timers EXCEPT ![path] = @ \ {0}]
    /\ suppressedPaths' = suppressedPaths \ {path}
    /\ lastEvent' = NoEvent
    /\ watchSent' = <<>>
    /\ UNCHANGED window

\* one second passes; a timer that is due fires before time moves on
SuppressTick ==
    /\ \A p \in SyncPaths : 0 \notin timers[p]
    /\ \E p \in SyncPaths : timers[p] # {}
    /\ timers' = [p \in SyncPaths |-> {t - 1 : t \in timers[p]}]
    /\ window' = [p \in SyncPaths |-> IF window[p] > 0 THEN window[p] - 1 ELSE 0]
    /\ lastEvent' = NoEvent
    /\ watchSent' = <<>>
    /\ UNCHANGED suppressedPaths

\* the file watcher reports an event and the 'fileChange' handler runs
FileChange(role, type, path, data) ==
    /\ lastEvent' = [role |-> role, type |-> type, path |-> path]
    /\ watchSent' = fileChange(suppressedPaths, role, type, path, data)
    /\ UNCHANGED <<suppressedPaths, timers, window>>
(***************************************************************************)
(* The host's sweep against the heartbeat of one client, in time.  Time    *)
(* advances in seconds; a timer fires, and a message is delivered, at the  *)
(* second it is due, in any order among those due at the same second.      *)
(***************************************************************************)
BeatConn == 1
BeatUser == "u1"

Max(a, b) == IF a >= b THEN a ELSE b

BeatStart(offsets) ==
    /\ sweepIn \in offsets
    /\ beatIn = BeatPeriod
    /\ flight = <<>>
    /\ beats = 0
    /\ slowest = 0

\* the client's 'open' handler: it sends Join and starts its heartbeat
\* timer; the host's 'connection' event runs handleConnection
ClientOpens ==
    /\ Connect(BeatConn, BeatUser)
    /\ \E d \in 0..MaxDelay : flight' = <<[type |-> "Join", left |-> d]>>
    /\ beatIn' = BeatPeriod
    /\ UNCHANGED <<sweepIn, beats, slowest>>

\* a second passes: no timer is due and no message is due
Tick ==
    /\ cliOpen[BeatConn]
    /\ sweepIn > 0
    /\ beatIn > 0
    /\ \A i \in DOMAIN flight : flight[i].left > 0
    /\ sweepIn' = sweepIn - 1
    /\ beatIn' = beatIn - 1
    /\ flight' = [i \in DOMAIN flight |-> [flight[i] EXCEPT !.left = @ - 1]]
    /\ UNCHANGED <<hostVars, beats, slowest>>

\* the host's setInterval callback is due
SweepFires ==
    /\ sweepIn = 0
    /\ Sweep
    /\ sweepIn' = SweepPeriod
    /\ UNCHANGED <<beatIn, flight, beats, slowest>>

\* the client's setInterval callback is due: send({type: Heartbeat})
BeatFires ==
    /\ beatIn = 0
    /\ cliOpen[BeatConn]
    /\ beats < MaxBeats
    /\ \E d \in 0..MaxDelay :
          /\ flight' = Append(flight, [type |-> "Heartbeat", left |-> d])
          /\ slowest' = Max(slowest, d)
    /\ beats' = beats + 1
    /\ beatIn' = BeatPeriod
    /\ UNCHANGED <<hostVars, sweepIn>>

\* the client's Join reaches the host
JoinDelivered ==
    /\ flight # <<>>
    /\ Head(flight).left = 0 /\ Head(flight).type = "Join"
    /\ Join(BeatConn)
    /\ flight' = Tail(flight)
    /\ UNCHANGED <<sweepIn, beatIn, beats, slowest>>

\* a Heartbeat of the client reaches the host
BeatDelivered ==
    /\ flight # <<>>
    /\ Head(flight).left = 0 /\ Head(flight).type = "Heartbeat"
    /\ Heartbeat(BeatConn)
    /\ flight' = Tail(flight)
    /\ UNCHANGED <<sweepIn, beatIn, beats, slowest>>

\* a message reaches a socket the host has terminated: no 'message' event
Undelivered ==
    /\ flight # <<>>
    /\ Head(flight).left = 0
    /\ readyState[BeatConn] # "OPEN"
    /\ flight' = Tail(flight)
    /\ UNCHANGED <<hostVars, sweepIn, beatIn, beats, slowest>>

(***************************************************************************)
(* The client's connection (CollabClient): the handlers of its socket, the *)
(* reconnect timer and disconnect.                                         *)
(***************************************************************************)
RECURSIVE Pow2(_)
Pow2(n) == IF n = 0 THEN 1 ELSE 2 * Pow2(n - 1)

\* the delay without the 30000 ms ceiling: the backoff claim must tell it
\* from reconnectDelay
reconnectDelay_uncapped(attempts) == 1000 * Pow2(attempts)

\* scheduleReconnect: Math.min(1000 * Math.pow(2, attempts), 30000)
reconnectDelay(attempts) == Min(1000 * Pow2(attempts), 30000)

\* the condition without the cap: the reconnect claim must tell it from
\* mayReconnect
mayReconnect_uncapped(should, attempts) == should

\* the 'close' handler's condition for scheduling a reconnect
mayReconnect(should, attempts) == should /\ attempts < maxReconnectAttempts

ClientStart ==
    /\ sock = "NONE"
    /\ connected = FALSE
    /\ reconnectAttempts = 0
    /\ shouldReconnect = TRUE
    /\ reconnectTimer = FALSE
    /\ heartbeatTimer = FALSE
    /\ delay = 0
    /\ joined = FALSE
    /\ sinceOpen = 0
    /\ sinceAck = 0
    /\ wire = <<>>

\* the extension calls connect() on a new client
ClientConnect ==
    /\ sock = "NONE"
    /\ shouldReconnect
    /\ sock' = "CONNECTING"
    /\ UNCHANGED <<connected, reconnectAttempts, shouldReconnect, reconnectTimer,
                   heartbeatTimer, delay, joined, sinceOpen, sinceAck>>
    /\ wire' = <<>>

\* the 'open' handler without the reset of reconnectAttempts: the reset claim
\* must tell it from SocketOpens
SocketOpens_noReset ==
    /\ sock = "CONNECTING"
    /\ sock' = "OPEN"
    /\ connected' = TRUE
    /\ heartbeatTimer' = TRUE
    /\ sinceOpen' = 0
    /\ UNCHANGED <<reconnectAttempts, shouldReconnect, reconnectTimer, delay, joined, sinceAck>>
    /\ wire' = <<"Join">>

\* the 'open' handler
SocketOpens ==
    /\ sock = "CONNECTING"
    /\ sock' = "OPEN"
    /\ connected' = TRUE
    /\ reconnectAttempts' = 0
    /\ heartbeatTimer' = TRUE
    /\ sinceOpen' = 0
    /\ UNCHANGED <<shouldReconnect, reconnectTimer, delay, joined, sinceAck>>
    /\ wire' = <<"Join">>

\* the 'message' handler, JoinAck branch
JoinAckArrives ==
    /\ sock = "OPEN"
    /\ ~joined
    /\ joined' = TRUE
    /\ sinceAck' = 0
    /\ UNCHANGED <<sock, connected, reconnectAttempts, shouldReconnect,
                   reconnectTimer, heartbeatTimer, delay, sinceOpen>>
    /\ wire' = <<>>

\* the 'error' handler; the library emits 'close' after it
SocketFails ==
    /\ sock \in {"CONNECTING", "OPEN"}
    /\ sock' = "CLOSING"
    /\ UNCHANGED <<connected, reconnectAttempts, shouldReconnect, reconnectTimer,
                   heartbeatTimer, delay, joined, sinceOpen, sinceAck>>
    /\ wire' = <<>>

\* the 'close' handler, with scheduleReconnect
SocketCloses ==
    /\ sock \in {"CONNECTING", "OPEN", "CLOSING"}
    /\ sock' = "CLOSED"
    /\ connected' = FALSE
    /\ heartbeatTimer' = FALSE
    /\ joined' = FALSE
    /\ IF mayReconnect(shouldReconnect, reconnectAttempts)
       THEN /\ reconnectAttempts' = reconnectAttempts + 1
            /\ delay' = reconnectDelay(reconnectAttempts + 1)
            /\ reconnectTimer' = TRUE
       ELSE UNCHANGED <<reconnectAttempts, delay, reconnectTimer>>
    /\ UNCHANGED <<shouldReconnect, sinceOpen, sinceAck>>
    /\ wire' = <<>>

\* the reconnect timer fires: connect() makes a new socket
ReconnectTimerFires ==
    /\ reconnectTimer
    /\ sinceAck < MaxTries
    /\ reconnectTimer' = FALSE
    /\ sock' = "CONNECTING"
    /\ sinceOpen' = sinceOpen + 1
    /\ sinceAck' = sinceAck + 1
    /\ UNCHANGED <<connected, reconnectAttempts, shouldReconnect, heartbeatTimer,
                   delay, joined>>
    /\ wire' = <<>>

\* disconnect() that leaves the reconnect timer pending: the disconnect
\* claim must tell it from Disconnect
Disconnect_keepsTimer ==
    /\ shouldReconnect
    /\ shouldReconnect' = FALSE
    /\ heartbeatTimer' = FALSE
    /\ sock' = IF sock \in {"CONNECTING", "OPEN"} THEN "CLOSING" ELSE sock
    /\ connected' = FALSE
    /\ UNCHANGED <<reconnectTimer, reconnectAttempts, delay, joined, sinceOpen, sinceAck>>
    /\ wire' = <<>>

\* disconnect()
Disconnect ==
    /\ shouldReconnect
    /\ shouldReconnect' = FALSE
    /\ reconnectTimer' = FALSE
    /\ heartbeatTimer' = FALSE
    /\ sock' = IF sock \in {"CONNECTING", "OPEN"} THEN "CLOSING" ELSE sock
    /\ connected' = FALSE
    /\ UNCHANGED <<reconnectAttempts, delay, joined, sinceOpen, sinceAck>>
    /\ wire' = <<>>

\* the heartbeat interval fires: send({type: Heartbeat}), which sends only on
\* an open socket
HeartbeatFires ==
    /\ heartbeatTimer
    /\ wire' = IF sock = "OPEN" THEN <<"Heartbeat">> ELSE <<>>
    /\ UNCHANGED <<sock, connected, reconnectAttempts, shouldReconnect,
                   reconnectTimer, heartbeatTimer, delay, joined, sinceOpen, sinceAck>>


(***************************************************************************)
(* Raw frames: the 'message' handlers of the host and of a client, from    *)
(* the text they are given                                                 *)
(***************************************************************************)
\* the type tags of protocol.ts that occur in the frames below
KnownTypes ==
    {"Join", "JoinAck", "UserJoined", "UserLeft", "Heartbeat", "HeartbeatAck",
     "Error", "FileManifestRequest", "FileRequest"} \cup RelayTypes

\* the frames a peer sends: text that is not JSON; JSON of a falsy value
\* (null, 0, false, ""); JSON of a value without a type (7, [], {}); an
\* object with a type that is no message kind; messages of the protocol
Frames ==
    {Frame(FALSE, FALSE, NoType, Null),
     Frame(TRUE, FALSE, NoType, Null),
     Frame(TRUE, TRUE, NoType, Null),
     Frame(TRUE, TRUE, "Bogus", Null),
     Frame(TRUE, TRUE, "Heartbeat", Null),
     Frame(TRUE, TRUE, "UserLeft", "u1")}
    \cup {Frame(TRUE, TRUE, "Join", u) : u \in {HostId, "u1", "u2"}}

\* the value null
NullValue == [truthy |-> FALSE, type |-> NoType, userId |-> Null]

\* deserializeMessage that returns the text itself when JSON.parse throws:
\* the malformed-frame claim must tell it from deserializeMessage
deserializeMessage_asText(f) ==
    IF f.parses THEN [truthy |-> f.truthy, type |-> f.type, userId |-> f.userId]
    ELSE [truthy |-> TRUE, type |-> NoType, userId |-> Null]

\* deserializeMessage: the value JSON.parse returns, or null when it throws
deserializeMessage(f) ==
    IF f.parses THEN [truthy |-> f.truthy, type |-> f.type, userId |-> f.userId]
    ELSE NullValue

\* the host's 'message' handler, Join branch, for a Join that carries userId u
JoinAs(c, u) ==
    /\ colorIndex <= MaxRejoins
    /\ LET color == colorIndex % PaletteSize
           e == [userId |-> u, ws |-> c, isAlive |-> TRUE, color |-> color,
                 activeFile |-> Null, cursor |-> Null]
           h1 == [Host EXCEPT !.clients = MapSet(@, e)]
           h2 == sendTo(h1, u, Msg("JoinAck", u, getAllUsers(h1.clients)))
           h3 == broadcastExcept(h2, u, Msg("UserJoined", u, <<>>))
       IN  /\ SetHost(h3)
           /\ colorIndex' = colorIndex + 1
           /\ clientId' = [clientId EXCEPT ![c] = u]
    /\ Step
    /\ UNCHANGED <<cliOpen, owner, evicted, quota>>

\* the host's 'message' handler of connection c, given frame f
HostFrame(c, f) ==
    /\ readyState[c] = "OPEN"
    /\ cliOpen[c]
    /\ \A d \in Conns : Len(inbox[d]) < MaxInbox
    /\ LET msg == deserializeMessage(f)
       IN  IF ~msg.truthy
           THEN /\ NoSend /\ Step
                /\ UNCHANGED <<clients, colorIndex, readyState, clientId, cliOpen,
                               owner, evicted, quota>>
           ELSE IF msg.type = "Join" THEN JoinAs(c, msg.userId)
           ELSE IF msg.type = "Heartbeat" THEN Heartbeat(c)
           ELSE ClientMessage(c, msg.type)
    /\ inbox' = [d \in Conns |-> IF cliOpen'[d] THEN inbox[d] \o out'[d] ELSE <<>>]
    /\ lastFrame' = f
    /\ UNCHANGED cachedUsers

\* the 'message' handler of the client of connection c, given frame f
ClientFrame(c, f) ==
    /\ cliOpen[c]
    /\ LET msg == deserializeMessage(f)
       IN  cachedUsers' =
              IF ~msg.truthy THEN cachedUsers
              ELSE [cachedUsers EXCEPT ![owner[c]] =
                       handleMessage(@, Msg(msg.type, msg.userId, <<>>))]
    /\ lastFrame' = f
    /\ UNCHANGED <<hostVars, inbox>>

(***************************************************************************)
(* Starting a session as host: startHost of the extension and              *)
(* CollabServer.start.  startState is "idle" while no start is under way,  *)
(* "listening" while listen() is pending, "resolved" or "rejected" once    *)
(* the promise of start() is settled and startHost has not resumed, and    *)
(* "running" when startHost has finished.                                  *)
(***************************************************************************)
SessionStart ==
    /\ mode = "none"
    /\ startState = "idle"
    /\ heartbeatInterval = FALSE
    /\ portInUse = FALSE

\* the parts of the host that starting leaves alone
HostKept == UNCHANGED <<readyState, clientId, cliOpen, owner, out, evicted, sent, nsteps>>

\* startHost that starts the sweep timer before listen() has succeeded: the
\* listen-failure claim must tell it from StartHost
StartHost_eagerSweep(busy) ==
    /\ mode = "none"
    /\ startState = "idle"
    /\ startState' = "listening"
    /\ portInUse' = busy
    /\ clients' = <<>>
    /\ colorIndex' = 1
    /\ heartbeatInterval' = TRUE
    /\ UNCHANGED <<mode, quota>>
    /\ HostKept

\* startHost up to its await of server.start(): a new CollabServer, whose
\* start() creates the servers and calls listen(); busy tells whether another
\* process holds the port
StartHost(busy) ==
    /\ mode = "none"
    /\ startState = "idle"
    /\ startState' = "listening"
    /\ portInUse' = busy
    /\ clients' = <<>>
    /\ colorIndex' = 1
    /\ UNCHANGED <<mode, heartbeatInterval, quota>>
    /\ HostKept

\* the callback of listen(): startHeartbeat() and resolve(); from now on the
\* host accepts connections
ListenSucceeds ==
    /\ startState = "listening"
    /\ ~portInUse
    /\ startState' = "resolved"
    /\ heartbeatInterval' = TRUE
    /\ quota' = MaxConns
    /\ UNCHANGED <<mode, portInUse, clients, colorIndex>>
    /\ HostKept

\* the 'error' handler of httpServer (EADDRINUSE): reject()
ListenFails ==
    /\ startState = "listening"
    /\ portInUse
    /\ startState' = "rejected"
    /\ UNCHANGED <<mode, heartbeatInterval, portInUse, clients, colorIndex, quota>>
    /\ HostKept

\* startHost after server.start() has resolved
StartContinues ==
    /\ startState = "resolved"
    /\ startState' = "running"
    /\ mode' = "host"
    /\ UNCHANGED <<heartbeatInterval, portInUse, clients, colorIndex, quota>>
    /\ HostKept

\* startHost's catch block after server.start() has rejected: cleanup(),
\* whose server.stop() clears the sweep timer and the registry
StartCatches ==
    /\ startState = "rejected"
    /\ startState' = "idle"
    /\ mode' = "none"
    /\ heartbeatInterval' = FALSE
    /\ clients' = <<>>
    /\ UNCHANGED <<portInUse, colorIndex, quota>>
    /\ HostKept

(***************************************************************************)
(* Reading a file for sending.  A Buffer is given by its length and by the *)
(* indices of its bytes that are zero.                                     *)
(***************************************************************************)
Lengths == {0, 1, HeadLength - 1, HeadLength, HeadLength + 1, HeadLength + 2, MaxLength}

Indices == {0, HeadLength - 1, HeadLength, HeadLength + 1, MaxLength - 1}

Buffers ==
    {[length |-> n, zeros |-> z] : n \in Lengths, z \in SUBSET Indices} \cap
    {b \in [length : Lengths, zeros : SUBSET Indices] : \A i \in b.zeros : i < b.length}

\* no message
NoMessage == [encoding |-> "none", content |-> <<"none", 0, {}>>]

\* isBinaryFile that examines every byte of the buffer: the encoding claim
\* must tell it from isBinaryBuffer
isBinaryBuffer_wholeFile(buf) ==
    \E i \in buf.zeros : i < buf.length

\* isBinaryFile on a Buffer: the loop over i < Math.min(buffer.length, 8192)
\* returns true at the first i with buffer[i] === 0
isBinaryBuffer(buf) ==
    \E i \in buf.zeros : i < Min(buf.length, HeadLength)

\* readFileForSend on a Buffer: the encoding, and the content as the
\* conversion applied and the bytes it was applied to
readBufferForSend(buf) ==
    IF isBinaryBuffer(buf)
    THEN [encoding |-> "base64", content |-> <<"base64", buf.length, buf.zeros>>]
    ELSE [encoding |-> "utf8", content |-> <<"string", buf.length, buf.zeros>>]

SendFrom(b) ==
    /\ buffer = b
    /\ message = NoMessage

SendStart == SendFrom([length |-> 0, zeros |-> {}])

\* readFileForSend after safeReadFile has returned the Buffer
ReadFileForSend ==
    /\ message = NoMessage
    /\ message' = readBufferForSend(buffer)
    /\ UNCHANGED buffer

(***************************************************************************)
(* The host's 'fileRequest' handler, serving the paths a client requested  *)
(***************************************************************************)
ServeStart == unserved = {}

\* the client's startInitialSync goes on after its awaits, and the
\* FileRequest messages it sends reach the host
RequestsArrive ==
    /\ SyncBegins
    /\ unserved' = IF Len(toDownload) = 0 THEN unserved ELSE Range(toDownload)

\* a file of the host's manifest is deleted, or becomes unreadable, before
\* the handler comes to it
HostFileLost(path) ==
    /\ phase # "idle"
    /\ path \in Range(toDownload)
    /\ phase = "syncing" => path \in unserved
    /\ hostTree[path] # 0
    /\ hostTree' = [hostTree EXCEPT ![path] = 0]
    /\ UNCHANGED <<phase, toDownload, pendingFiles, syncCompleteCallback, suppressedPaths,
                   requests, writing, arrivals, completions, clientTree, localManifest,
                   toDelete, unserved>>

\* one round of the handler's loop: readFileForSend(path), and sendTo if it
\* returned a message; the FileContent reaches the client, whose
\* 'fileContent' handler runs
ServeFile(path) ==
    /\ path \in unserved
    /\ unserved' = unserved \ {path}
    /\ IF hostTree[path] # 0
       THEN FileContentArrives(path)
       ELSE UNCHANGED syncVars

(***************************************************************************)
(* The two commands of the extension together: startHost and joinSession.  *)
(* joinState is "idle" while no joinSession is under way, "connecting"     *)
(* while it awaits connect() on the client's first socket, "rejected" when *)
(* connect() has rejected and joinSession has not resumed, "unsettled"     *)
(* when the first socket is gone and its promise can no longer settle, and *)
(* "joined" when joinSession has finished.  One startHost and one          *)
(* joinSession are taken at a time; the inputs the commands ask for are    *)
(* given.                                                                  *)
(***************************************************************************)
JoinStart == joinState = "idle"

\* joinSession up to its await of client.connect(): the test of mode, the
\* new CollabClient and its connect()
JoinSession ==
    /\ mode = "none"
    /\ joinState = "idle"
    /\ joinState' = "connecting"
    /\ ClientConnect

\* what an event of the client's socket means for the promise joinSession
\* awaits: the 'error' handler rejects it if the socket never opened, and
\* nothing can settle it once the first socket is gone
Settle(rejects) ==
    joinState' = IF joinState # "connecting" THEN joinState
                 ELSE IF rejects THEN "rejected"
                 ELSE "unsettled"

\* joinSession after connect() has resolved, which the first JoinAck makes
\* it do
JoinContinues ==
    /\ joinState = "connecting"
    /\ joined
    /\ joinState' = "joined"
    /\ mode' = "client"
    /\ UNCHANGED <<startState, heartbeatInterval, portInUse>>

\* cleanup(), the client's part: client.disconnect() and client = null; the
\* next joinSession makes a new CollabClient
ClientCleanup ==
    /\ joinState' = "idle"
    /\ sock' = "NONE"
    /\ connected' = FALSE
    /\ reconnectAttempts' = 0
    /\ shouldReconnect' = TRUE
    /\ reconnectTimer' = FALSE
    /\ heartbeatTimer' = FALSE
    /\ delay' = 0
    /\ joined' = FALSE
    /\ sinceOpen' = 0
    /\ UNCHANGED sinceAck
    /\ wire' = <<>>

\* joinSession's catch block after connect() has rejected: cleanup(), taken
\* while no startHost is under way
JoinCatches ==
    /\ joinState = "rejected"
    /\ startState = "idle"
    /\ mode' = "none"
    /\ ClientCleanup
    /\ UNCHANGED <<startState, heartbeatInterval, portInUse>>

\* a host session is active or being started
HostActive == startState # "idle"

\* a client session is active or being started
ClientActive == joinState # "idle"

(***************************************************************************)
(* One document saved across a session of a host and two clients.  Each    *)
(* peer holds the document open; unsaved[p] is its isDirty.  An edit, typed *)
(* or applied from a DocEdit, makes it dirty; the session makes MaxEdits   *)
(* of them.  The user saves once.  A FileSave carries nothing the handlers *)
(* read but the path, so a connection is the count of those in flight.     *)
(***************************************************************************)
SaveClients == {"u1", "u2"}

SavePeers == {HostId} \cup SaveClients

\* the FileSave messages one save puts on connections: a client's goes to
\* the host and from it to the other clients, the host's to every client
PerSave == Cardinality(SaveClients)

\* the most FileSave messages a session of this size can send: one save by
\* the user and one for every time a document became dirty
SaveLimit == PerSave * (1 + Cardinality(SavePeers) + MaxEdits)

SaveFrom(d) ==
    /\ unsaved = d
    /\ upNet = [c \in SaveClients |-> 0]
    /\ downNet = [c \in SaveClients |-> 0]
    /\ savesSent = 0
    /\ humanSaved = FALSE
    /\ editsLeft = MaxEdits

SaveStart == SaveFrom([p \in SavePeers |-> FALSE])

\* server.broadcast(msg) or broadcastExcept(sender, msg): one more message
\* to every client in the set
sendDown(net, to) == [c \in SaveClients |-> IF c \in to THEN net[c] + 1 ELSE net[c]]

\* document.save() and the onDidSaveTextDocument it raises: handleDocumentSave
\* emits 'fileSave', which the host broadcasts and a client sends to the
\* host; up, down and count are the connections and the count before it
SaveDocument(p, up, down, count) ==
    /\ unsaved' = [unsaved EXCEPT ![p] = FALSE]
    /\ IF p = HostId
       THEN /\ downNet' = sendDown(down, SaveClients)
            /\ upNet' = up
            /\ savesSent' = count + Cardinality(SaveClients)
       ELSE /\ upNet' = [up EXCEPT ![p] = @ + 1]
            /\ downNet' = down
            /\ savesSent' = count + 1

\* applyRemoteSave that saves whether or not the document is dirty, as long
\* as the count is below twice the limit: the finiteness claim must tell it
\* from applyRemoteSaveAt
applyRemoteSaveAt_always(p, up, down, count) ==
    /\ count < 2 * SaveLimit
    /\ SaveDocument(p, up, down, count)

\* DocumentSync.applyRemoteSave on peer p: the document is saved only if it
\* is dirty
applyRemoteSaveAt(p, up, down, count) ==
    IF unsaved[p]
    THEN SaveDocument(p, up, down, count)
    ELSE /\ upNet' = up
         /\ downNet' = down
         /\ savesSent' = count
         /\ UNCHANGED unsaved

\* the user saves the document on peer p
HumanSave(p) ==
    /\ ~humanSaved
    /\ humanSaved' = TRUE
    /\ SaveDocument(p, upNet, downNet, savesSent)
    /\ UNCHANGED editsLeft

\* an edit reaches the document of peer p: typed there, or applied from a
\* DocEdit
EditDocument(p) ==
    /\ editsLeft > 0
    /\ editsLeft' = editsLeft - 1
    /\ unsaved' = [unsaved EXCEPT ![p] = TRUE]
    /\ UNCHANGED <<upNet, downNet, savesSent, humanSaved>>

\* the host's FileSave branch for a message of client c: broadcastExcept,
\* then 'fileSave', whose handler calls applyRemoteSave
HostReceivesSave(c) ==
    /\ upNet[c] > 0
    /\ applyRemoteSaveAt(HostId,
                         [upNet EXCEPT ![c] = @ - 1],
                         sendDown(downNet, SaveClients \ {c}),
                         savesSent + Cardinality(SaveClients) - 1)
    /\ UNCHANGED <<humanSaved, editsLeft>>

\* client c's FileSave branch: 'fileSave', whose handler calls
\* applyRemoteSave
ClientReceivesSave(c) ==
    /\ downNet[c] > 0
    /\ applyRemoteSaveAt(c, upNet, [downNet EXCEPT ![c] = @ - 1], savesSent)
    /\ UNCHANGED <<humanSaved, editsLeft>>

\* no FileSave is on its way
SaveQuiet == \A c \in SaveClients : upNet[c] = 0 /\ downNet[c] = 0

(***************************************************************************)
(* The client's own changes during and after its initial sync.  The user   *)
(* edits or saves a document, or a file of the workspace is created or     *)
(* deleted, at any time; what the client sends to the host for it depends  *)
(* on the listeners registered so far.                                     *)
(***************************************************************************)
LocalTypes == {"DocEdit", "FileSave", "FileCreate", "FileDelete"}

LocalStart ==
    /\ localSent = [t \in LocalTypes |-> 0]
    /\ unheard = 0

\* the listeners of the client, were setupClientLocalChanges called in
\* joinSession as well: the claim of silence must tell it from
\* boundListeners
boundListeners_atJoin == completions + 1

\* the times documentSync.start(), fileWatcher.start() and
\* setupClientLocalChanges have been called: once in every firing of the
\* completion callback, and nowhere else
boundListeners == completions

\* a change on the client: every listener start() registered with the
\* editor emits one event, and every handler setupClientLocalChanges bound
\* sends one message for it, unless the path of a file event is suppressed
ClientLocalChange(type, path) ==
    /\ unheard + localSent["DocEdit"] + localSent["FileSave"]
          + localSent["FileCreate"] + localSent["FileDelete"] < MaxChanges
    /\ LET quiet == type \in {"FileCreate", "FileDelete"} /\ path \in suppressedPaths
           n == IF quiet THEN 0 ELSE boundListeners * boundListeners
       IN  /\ localSent' = [localSent EXCEPT ![type] = @ + n]
           /\ unheard' = IF boundListeners = 0 THEN unheard + 1 ELSE unheard

(***************************************************************************)
(* The host's 'message' handler on connections that have and have not      *)
(* sent a Join.  heardOn records the last message other than Join that was *)
(* handled: its type, whether clientId of its connection was set, and how  *)
(* many peers were registered when it arrived.                             *)
(***************************************************************************)
NoHeard == [type |-> "none", joined |-> FALSE, peers |-> 0]

HeardStart == heardOn = NoHeard

\* the message kinds other than Join a connection is given in SpecUnjoined
HeardTypes == {"Heartbeat", "DocEdit", "FileRequest"}

\* the 'message' handler of connection c, given a message of type t that is
\* not a Join
Hear(c, t) ==
    /\ cliOpen[c]
    /\ IF t = "Heartbeat" THEN Heartbeat(c) ELSE ClientMessage(c, t)
    /\ heardOn' = [type |-> t, joined |-> clientId[c] # Null, peers |-> Len(clients)]
(***************************************************************************)
(* The specifications                                                      *)
(***************************************************************************)
Others ==
    UNCHANGED <<cacheVars, heardVars, localVars, saveVars, joinVars, serveVars,
                sendVars, docVars, syncVars, watchVars, beatVars, clientVars,
                sessionVars>>

HostOnly ==
    UNCHANGED <<cacheVars, heardVars, localVars, saveVars, joinVars, serveVars,
                sendVars, rosterVars, docVars, syncVars, watchVars, beatVars,
                clientVars, sessionVars>>

DocOnly ==
    UNCHANGED <<cacheVars, heardVars, localVars, saveVars, joinVars, serveVars,
                sendVars, hostVars, rosterVars, syncVars, watchVars, beatVars,
                clientVars, sessionVars>>

SyncOnly ==
    UNCHANGED <<cacheVars, heardVars, localVars, saveVars, joinVars, serveVars,
                sendVars, hostVars, rosterVars, docVars, watchVars, beatVars,
                clientVars, sessionVars>>

BeatOnly ==
    UNCHANGED <<cacheVars, heardVars, localVars, saveVars, joinVars, serveVars,
                sendVars, rosterVars, docVars, syncVars, watchVars, clientVars,
                sessionVars>>

ClientOnly ==
    UNCHANGED <<cacheVars, heardVars, localVars, saveVars, joinVars, serveVars,
                sendVars, hostVars, rosterVars, docVars, syncVars, watchVars, beatVars,
                sessionVars>>

WatchOnly ==
    UNCHANGED <<cacheVars, heardVars, localVars, saveVars, joinVars, serveVars,
                sendVars, hostVars, rosterVars, docVars, beatVars, clientVars,
                sessionVars, phase, toDownload, pendingFiles, syncCompleteCallback,
                requests, writing, arrivals, completions, clientTree, hostTree,
                localManifest, toDelete>>

\* connections come and go, peers join, heartbeat and are swept
Lifecycle ==
    \/ \E c \in Conns, u \in Users : Connect(c, u) /\ HostOnly
    \/ \E c \in Conns : ClientDrop(c) /\ HostOnly
    \/ \E c \in Conns : Join(c) /\ HostOnly
    \/ \E c \in Conns : Heartbeat(c) /\ HostOnly
    \/ \E c \in Conns : PeerClose(c) /\ HostOnly
    \/ \E c \in Conns : ErrorEvent(c) /\ HostOnly
    \/ \E c \in Conns : CloseEvent(c) /\ HostOnly
    \/ Sweep /\ HostOnly

Relay == \E c \in Conns, t \in RelayTypes : ClientMessage(c, t) /\ HostOnly

\* the host, with every kind of relayed message
Init ==
    /\ HostInit(MaxConns, -1)
    /\ RosterStart /\ DocStart /\ SyncStart /\ WatchStart /\ BeatStart({SweepPeriod}) /\ ClientStart
    /\ SessionStart /\ SendStart /\ ServeStart
    /\ JoinStart /\ SaveStart /\ LocalStart /\ HeardStart /\ CacheStart

Next == Lifecycle \/ Relay

Spec == Init /\ [][Next]_vars

\* the host with one more connection and no relayed traffic
EvictInit ==
    /\ HostInit(MaxConnsWide, -1)
    /\ RosterStart /\ DocStart /\ SyncStart /\ WatchStart /\ BeatStart({SweepPeriod}) /\ ClientStart
    /\ SessionStart /\ SendStart /\ ServeStart
    /\ JoinStart /\ SaveStart /\ LocalStart /\ HeardStart /\ CacheStart

EvictNext == Lifecycle

SpecEvict == EvictInit /\ [][EvictNext]_vars

\* the host with the streams kept, in runs of at most MaxSteps handlers
OrderInit ==
    /\ HostInit(MaxConnsWide, 0)
    /\ RosterStart /\ DocStart /\ SyncStart /\ WatchStart /\ BeatStart({SweepPeriod}) /\ ClientStart
    /\ SessionStart /\ SendStart /\ ServeStart
    /\ JoinStart /\ SaveStart /\ LocalStart /\ HeardStart /\ CacheStart

OrderNext == Lifecycle \/ \E c \in Conns : ClientMessage(c, "DocEdit") /\ HostOnly

SpecOrder == OrderInit /\ [][OrderNext]_vars

\* the host over many joins and leaves: connections are made, joined,
\* closed by their clients and forgotten
ColorInit ==
    /\ HostInit(MaxConns, -1)
    /\ RosterStart /\ DocStart /\ SyncStart /\ WatchStart /\ BeatStart({SweepPeriod}) /\ ClientStart
    /\ SessionStart /\ SendStart /\ ServeStart
    /\ JoinStart /\ SaveStart /\ LocalStart /\ HeardStart /\ CacheStart

ColorNext ==
    \/ \E c \in Conns, u \in Users : Connect(c, u) /\ HostOnly
    \/ \E c \in Conns : ClientDrop(c) /\ HostOnly
    \/ \E c \in Conns : Join(c) /\ HostOnly
    \/ \E c \in Conns : PeerClose(c) /\ HostOnly
    \/ \E c \in Conns : CloseEvent(c) /\ HostOnly
    \/ \E c \in Conns : Recycle(c) /\ HostOnly

SpecColor == ColorInit /\ [][ColorNext]_vars

\* the host and the clients' cached rosters
RosterInit ==
    /\ HostInit(MaxConns, -1)
    /\ RosterStart /\ DocStart /\ SyncStart /\ WatchStart /\ BeatStart({SweepPeriod}) /\ ClientStart
    /\ SessionStart /\ SendStart /\ ServeStart
    /\ JoinStart /\ SaveStart /\ LocalStart /\ HeardStart /\ CacheStart

RosterNext ==
    \/ \E c \in Conns, u \in Users : Connect(c, u) /\ Transmit /\ Others
    \/ \E c \in Conns : ClientDrop(c) /\ Transmit /\ Others
    \/ \E c \in Conns : Join(c) /\ Transmit /\ Others
    \/ \E c \in Conns : PeerClose(c) /\ Transmit /\ Others
    \/ \E c \in Conns : CloseEvent(c) /\ Transmit /\ Others
    \/ \E c \in Conns : Deliver(c) /\ Others

SpecRoster == RosterInit /\ [][RosterNext]_vars

\* the host and the clients' rosters as arrays, with one more connection
CachedOnly ==
    UNCHANGED <<docVars, syncVars, watchVars, beatVars, clientVars, sessionVars,
                sendVars, serveVars, joinVars, saveVars, localVars, heardVars>>

CachedInit ==
    /\ HostInit(MaxConnsWide, -1)
    /\ RosterStart /\ DocStart /\ SyncStart /\ WatchStart /\ BeatStart({SweepPeriod}) /\ ClientStart
    /\ SessionStart /\ SendStart /\ ServeStart
    /\ JoinStart /\ SaveStart /\ LocalStart /\ HeardStart /\ CacheStart

CachedNext ==
    \/ \E c \in Conns, u \in {"u1", "u2"} : Connect(c, u) /\ Transmit /\ Others
    \/ \E c \in Conns : ClientDrop(c) /\ Transmit /\ Others
    \/ \E c \in Conns : Join(c) /\ Transmit /\ Others
    \/ \E c \in Conns : PeerClose(c) /\ Transmit /\ Others
    \/ \E c \in Conns : CloseEvent(c) /\ Transmit /\ Others
    \/ \E c \in Conns : DeliverToArray(c) /\ CachedOnly

SpecCached == CachedInit /\ [][CachedNext]_vars

\* the 'message' handlers, given raw frames
FrameInit ==
    /\ HostInit(MaxConns, -1)
    /\ RosterStart /\ DocStart /\ SyncStart /\ WatchStart /\ BeatStart({SweepPeriod}) /\ ClientStart
    /\ SessionStart /\ SendStart /\ ServeStart
    /\ JoinStart /\ SaveStart /\ LocalStart /\ HeardStart /\ CacheStart

FrameNext ==
    \/ \E c \in Conns, u \in {"u1", "u2"} : Connect(c, u) /\ Transmit /\ Others
    \/ \E c \in Conns, f \in Frames : HostFrame(c, f) /\ Others
    \/ \E c \in Conns, f \in Frames : ClientFrame(c, f) /\ Others
    \/ \E c \in Conns : Deliver(c) /\ Others

SpecFrame == FrameInit /\ [][FrameNext]_vars

\* starting a session as host, and the host's life once it listens
SessionOnly ==
    UNCHANGED <<cacheVars, heardVars, localVars, saveVars, joinVars, serveVars,
                sendVars, rosterVars, docVars, syncVars, watchVars, beatVars, clientVars>>

StartInit ==
    /\ HostInit(0, -1)
    /\ RosterStart /\ DocStart /\ SyncStart /\ WatchStart /\ BeatStart({SweepPeriod}) /\ ClientStart
    /\ SessionStart /\ SendStart /\ ServeStart
    /\ JoinStart /\ SaveStart /\ LocalStart /\ HeardStart /\ CacheStart

StartNext ==
    \/ \E busy \in BOOLEAN : StartHost(busy) /\ SessionOnly
    \/ ListenSucceeds /\ SessionOnly
    \/ ListenFails /\ SessionOnly
    \/ StartContinues /\ SessionOnly
    \/ StartCatches /\ SessionOnly
    \/ heartbeatInterval /\ Lifecycle

SpecStart == StartInit /\ [][StartNext]_vars

\* the two commands, each started while the other may be under way
RoleOnly ==
    UNCHANGED <<cacheVars, heardVars, localVars, saveVars, rosterVars, docVars,
                syncVars, watchVars, beatVars, sendVars, serveVars>>

HostSide == UNCHANGED <<clientVars, joinVars>> /\ RoleOnly

ClientSide == UNCHANGED <<hostVars, sessionVars>> /\ RoleOnly

RoleInit ==
    /\ HostInit(0, -1)
    /\ RosterStart /\ DocStart /\ SyncStart /\ WatchStart /\ BeatStart({SweepPeriod}) /\ ClientStart
    /\ SessionStart /\ SendStart /\ ServeStart
    /\ JoinStart /\ SaveStart /\ LocalStart /\ HeardStart /\ CacheStart

RoleNext ==
    \/ \E busy \in BOOLEAN : StartHost(busy) /\ HostSide
    \/ ListenSucceeds /\ HostSide
    \/ ListenFails /\ HostSide
    \/ StartContinues /\ HostSide
    \/ StartCatches /\ ClientCleanup /\ RoleOnly
    \/ JoinSession /\ ClientSide
    \/ SocketOpens /\ UNCHANGED joinState /\ ClientSide
    \/ JoinAckArrives /\ UNCHANGED joinState /\ ClientSide
    \/ SocketFails /\ Settle(~connected) /\ ClientSide
    \/ SocketCloses /\ Settle(FALSE) /\ ClientSide
    \/ ReconnectTimerFires /\ UNCHANGED joinState /\ ClientSide
    \/ JoinContinues /\ UNCHANGED <<hostVars, clientVars>> /\ RoleOnly
    \/ JoinCatches /\ UNCHANGED hostVars /\ RoleOnly

SpecRole == RoleInit /\ [][RoleNext]_vars

\* one document saved across the session
SaveOnly ==
    UNCHANGED <<cacheVars, heardVars, localVars, hostVars, rosterVars, docVars,
                syncVars, watchVars, beatVars, clientVars, sessionVars, sendVars,
                serveVars, joinVars>>

SaveInit ==
    /\ HostInit(0, -1)
    /\ RosterStart /\ DocStart /\ SyncStart /\ WatchStart /\ BeatStart({SweepPeriod}) /\ ClientStart
    /\ SessionStart /\ SendStart /\ ServeStart
    /\ JoinStart /\ LocalStart /\ HeardStart /\ CacheStart
    /\ \E d \in [SavePeers -> BOOLEAN] : SaveFrom(d)

SaveNext ==
    \/ \E p \in SavePeers : HumanSave(p) /\ SaveOnly
    \/ \E p \in SavePeers : EditDocument(p) /\ SaveOnly
    \/ \E c \in SaveClients : HostReceivesSave(c) /\ SaveOnly
    \/ \E c \in SaveClients : ClientReceivesSave(c) /\ SaveOnly

\* a message on a connection is delivered and its handler runs
SaveFair ==
    \A c \in SaveClients :
        /\ WF_vars(HostReceivesSave(c) /\ SaveOnly)
        /\ WF_vars(ClientReceivesSave(c) /\ SaveOnly)

SpecSave == SaveInit /\ [][SaveNext]_vars /\ SaveFair

\* messages on connections that have not joined
HeardOnly ==
    UNCHANGED <<cacheVars, rosterVars, docVars, syncVars, watchVars, beatVars,
                clientVars, sessionVars, sendVars, serveVars, joinVars, saveVars,
                localVars>>

UnjoinedInit ==
    /\ HostInit(MaxConnsWide, -1)
    /\ RosterStart /\ DocStart /\ SyncStart /\ WatchStart /\ BeatStart({SweepPeriod}) /\ ClientStart
    /\ SessionStart /\ SendStart /\ ServeStart
    /\ JoinStart /\ SaveStart /\ LocalStart /\ HeardStart /\ CacheStart

UnjoinedNext ==
    \/ \E c \in Conns, u \in {"u1", "u2"} : Connect(c, u) /\ HostOnly
    \/ \E c \in Conns : Join(c) /\ HostOnly
    \/ \E c \in Conns, t \in HeardTypes : Hear(c, t) /\ HeardOnly
    \/ \E c \in Conns : ClientDrop(c) /\ HostOnly
    \/ \E c \in Conns : PeerClose(c) /\ HostOnly
    \/ \E c \in Conns : CloseEvent(c) /\ HostOnly

SpecUnjoined == UnjoinedInit /\ [][UnjoinedNext]_vars

\* reading files for sending
SendOnly ==
    UNCHANGED <<cacheVars, heardVars, localVars, saveVars, joinVars, serveVars,
                hostVars, rosterVars, docVars, syncVars, watchVars, beatVars,
                clientVars, sessionVars>>

SendInit ==
    /\ HostInit(0, -1)
    /\ RosterStart /\ DocStart /\ SyncStart /\ WatchStart /\ BeatStart({SweepPeriod}) /\ ClientStart
    /\ SessionStart /\ ServeStart
    /\ JoinStart /\ SaveStart /\ LocalStart /\ HeardStart /\ CacheStart
    /\ \E b \in Buffers : SendFrom(b)

SendNext == ReadFileForSend /\ SendOnly

SpecSend == SendInit /\ [][SendNext]_vars

\* the initial file synchronization with the host serving the requests,
\* while the connection stays open: what is sent arrives, and every await
\* of the two handlers ends
ServeOnly ==
    UNCHANGED <<cacheVars, heardVars, localVars, saveVars, joinVars, hostVars,
                rosterVars, docVars, watchVars, beatVars, clientVars, sessionVars,
                sendVars>>

ServeInit ==
    /\ HostInit(0, -1)
    /\ \E mine \in Trees, theirs \in Trees : SyncFrom(mine, theirs)
    /\ RosterStart /\ DocStart /\ WatchStart /\ BeatStart({SweepPeriod}) /\ ClientStart
    /\ SessionStart /\ SendStart /\ ServeStart
    /\ JoinStart /\ SaveStart /\ LocalStart /\ HeardStart /\ CacheStart

ServeNext ==
    \/ ManifestArrives(generateManifest(clientTree), generateManifest(hostTree))
          /\ UNCHANGED unserved /\ ServeOnly
    \/ RequestsArrive /\ ServeOnly
    \/ \E p \in SyncPaths : HostFileLost(p) /\ ServeOnly
    \/ \E p \in SyncPaths : ServeFile(p) /\ ServeOnly
    \/ \E p \in SyncPaths : WriteResolves(p) /\ UNCHANGED unserved /\ ServeOnly
    \/ \E p \in SyncPaths : WriteRejects(p) /\ UNCHANGED unserved /\ ServeOnly

ServeFair ==
    /\ WF_vars(ManifestArrives(generateManifest(clientTree), generateManifest(hostTree))
                  /\ UNCHANGED unserved /\ ServeOnly)
    /\ WF_vars(RequestsArrive /\ ServeOnly)
    /\ \A p \in SyncPaths : WF_vars(ServeFile(p) /\ ServeOnly)
    /\ \A p \in SyncPaths :
          WF_vars((WriteResolves(p) \/ WriteRejects(p)) /\ UNCHANGED unserved /\ ServeOnly)

SpecServe == ServeInit /\ [][ServeNext]_vars /\ ServeFair

\* the client's own changes while it synchronizes
LocalOnly ==
    UNCHANGED <<cacheVars, heardVars, hostVars, rosterVars, docVars, syncVars,
                watchVars, beatVars, clientVars, sessionVars, sendVars, serveVars,
                joinVars, saveVars>>

LocalNext ==
    \/ ServeNext
    \/ \E t \in LocalTypes, p \in SyncPaths : ClientLocalChange(t, p) /\ LocalOnly

SpecLocal == ServeInit /\ [][LocalNext]_vars

\* the edit synchronizer
DocInit ==
    /\ HostInit(0, -1)
    /\ RosterStart /\ DocStart /\ SyncStart /\ WatchStart /\ BeatStart({SweepPeriod}) /\ ClientStart
    /\ SessionStart /\ SendStart /\ ServeStart
    /\ JoinStart /\ SaveStart /\ LocalStart /\ HeardStart /\ CacheStart

DocNext ==
    \/ \E p \in DocPaths : LocalChange(p) /\ DocOnly
    \/ \E p \in DocPaths, v \in 1..MaxVersion, u \in {SelfId, PeerId} :
          ApplyRemoteEdit(p, v, u) /\ DocOnly
    \/ \E i \in DOMAIN calls : OpenResolves(i) /\ DocOnly
    \/ \E i \in DOMAIN calls : OpenRejects(i) /\ DocOnly
    \/ \E i \in DOMAIN calls : ChangeEvent(i) /\ DocOnly
    \/ \E i \in DOMAIN calls : ApplyResolves(i) /\ DocOnly
    \/ \E i \in DOMAIN calls : ApplyRejects(i) /\ DocOnly
    \/ GraceTimerFires /\ DocOnly

SpecDoc == DocInit /\ [][DocNext]_vars

\* the edit synchronizer of a client, with saves, on one document
EchoPaths == {"a.ts"}

EchoInit ==
    /\ HostInit(0, -1)
    /\ RosterStart /\ DocStart /\ SyncStart /\ WatchStart /\ BeatStart({SweepPeriod}) /\ ClientStart
    /\ SessionStart /\ SendStart /\ ServeStart
    /\ JoinStart /\ SaveStart /\ LocalStart /\ HeardStart /\ CacheStart

EchoNext ==
    \/ \E p \in EchoPaths : LocalChange(p) /\ DocOnly
    \/ \E p \in EchoPaths, v \in 1..MaxVersion, u \in {SelfId, PeerId} :
          ApplyRemoteEdit(p, v, u) /\ DocOnly
    \/ \E i \in DOMAIN calls : OpenResolves(i) /\ DocOnly
    \/ \E i \in DOMAIN calls : OpenRejects(i) /\ DocOnly
    \/ \E i \in DOMAIN calls : ChangeEvent(i) /\ DocOnly
    \/ \E i \in DOMAIN calls : ApplyResolves(i) /\ DocOnly
    \/ \E i \in DOMAIN calls : ApplyRejects(i) /\ DocOnly
    \/ GraceTimerFires /\ DocOnly
    \/ \E p \in EchoPaths : LocalSave(p) /\ DocOnly
    \/ \E p \in EchoPaths, opens \in BOOLEAN : ApplyRemoteSave(p, opens) /\ DocOnly

SpecEcho == EchoInit /\ [][EchoNext]_vars

\* the initial file synchronization
SyncInit ==
    /\ HostInit(0, -1)
    /\ \E mine \in Trees, theirs \in Trees : SyncFrom(mine, theirs)
    /\ RosterStart /\ DocStart /\ WatchStart /\ BeatStart({SweepPeriod}) /\ ClientStart
    /\ SessionStart /\ SendStart /\ ServeStart
    /\ JoinStart /\ SaveStart /\ LocalStart /\ HeardStart /\ CacheStart

SyncNext ==
    \/ ManifestArrives(generateManifest(clientTree), generateManifest(hostTree)) /\ SyncOnly
    \/ SyncBegins /\ SyncOnly
    \/ \E p \in SyncPaths : FileContentArrives(p) /\ SyncOnly
    \/ \E p \in SyncPaths : WriteResolves(p) /\ SyncOnly
    \/ \E p \in SyncPaths : WriteRejects(p) /\ SyncOnly
    \/ \E p \in SyncPaths : SuppressTimerFires(p) /\ SyncOnly

SpecSync == SyncInit /\ [][SyncNext]_vars

\* compareManifest alone, on every pair of workspaces
CompareInit == SyncInit

CompareNext ==
    ManifestArrives(generateManifest(clientTree), generateManifest(hostTree)) /\ SyncOnly

SpecCompare == CompareInit /\ [][CompareNext]_vars

\* startInitialSync up to its FileRequests, where the host holds the files
\* 1..n with one content and the client the files k..MaxPaths with another
BatchTree(first, last, bytes) ==
    [p \in 1..MaxPaths |-> IF first <= p /\ p <= last THEN bytes ELSE 0]

BatchInit ==
    /\ HostInit(0, -1)
    /\ \E n \in 0..MaxPaths, k \in 1..(MaxPaths + 1) :
          SyncFrom(BatchTree(k, MaxPaths, 1), BatchTree(1, n, 2))
    /\ RosterStart /\ DocStart /\ WatchStart /\ BeatStart({SweepPeriod}) /\ ClientStart
    /\ SessionStart /\ SendStart /\ ServeStart
    /\ JoinStart /\ SaveStart /\ LocalStart /\ HeardStart /\ CacheStart

BatchNext ==
    \/ ManifestArrives(generateManifest(clientTree), generateManifest(hostTree)) /\ SyncOnly
    \/ SyncBegins /\ SyncOnly

SpecBatch == BatchInit /\ [][BatchNext]_vars

\* the suppression set in time, with the file watcher
WatchInit ==
    /\ HostInit(0, -1)
    /\ RosterStart /\ DocStart /\ SyncStart /\ WatchStart /\ BeatStart({SweepPeriod}) /\ ClientStart
    /\ SessionStart /\ SendStart /\ ServeStart
    /\ JoinStart /\ SaveStart /\ LocalStart /\ HeardStart /\ CacheStart

WatchNext ==
    \/ \E p \in SyncPaths : SuppressPath(p) /\ WatchOnly
    \/ \E p \in SyncPaths : SuppressTimerDue(p) /\ WatchOnly
    \/ SuppressTick /\ WatchOnly
    \/ \E r \in WatchRoles, t \in FileChangeTypes, p \in SyncPaths, d \in {Null, "data"} :
          FileChange(r, t, p, d) /\ WatchOnly

SpecWatch == WatchInit /\ [][WatchNext]_vars

\* the sweep against one client's heartbeat, from any offset between the
\* two timers
BeatInit ==
    /\ HostInit(1, -1)
    /\ RosterStart /\ DocStart /\ SyncStart /\ WatchStart /\ BeatStart(1..SweepPeriod) /\ ClientStart
    /\ SessionStart /\ SendStart /\ ServeStart
    /\ JoinStart /\ SaveStart /\ LocalStart /\ HeardStart /\ CacheStart

BeatNext ==
    \/ ClientOpens /\ BeatOnly
    \/ Tick /\ BeatOnly
    \/ SweepFires /\ BeatOnly
    \/ BeatFires /\ BeatOnly
    \/ JoinDelivered /\ BeatOnly
    \/ BeatDelivered /\ BeatOnly
    \/ Undelivered /\ BeatOnly

SpecBeat == BeatInit /\ [][BeatNext]_vars

\* the client's connection
ClientInit ==
    /\ HostInit(0, -1)
    /\ RosterStart /\ DocStart /\ SyncStart /\ WatchStart /\ BeatStart({SweepPeriod}) /\ ClientStart
    /\ SessionStart /\ SendStart /\ ServeStart
    /\ JoinStart /\ SaveStart /\ LocalStart /\ HeardStart /\ CacheStart

ClientNext ==
    \/ ClientConnect /\ ClientOnly
    \/ SocketOpens /\ ClientOnly
    \/ JoinAckArrives /\ ClientOnly
    \/ SocketFails /\ ClientOnly
    \/ SocketCloses /\ ClientOnly
    \/ ReconnectTimerFires /\ ClientOnly
    \/ Disconnect /\ ClientOnly
    \/ HeartbeatFires /\ ClientOnly

SpecClient == ClientInit /\ [][ClientNext]_vars

(***************************************************************************)
(* Claims about the host                                                   *)
(***************************************************************************)
\* the registry entries that hold connection c
EntriesOf(reg, c) == {i \in DOMAIN reg : reg[i].ws = c}

\* the messages of kind type about user u that the last handler sent on d
SentNow(o, d, type, u) == {i \in DOMAIN o[d] : o[d][i].type = type /\ o[d][i].userId = u}

\* C1: after any interleaving of Join, close/error and sweep events, with a
\* peer re-joining under its userId on a new connection before the close of
\* its old one is processed, the registry holds exactly one entry for every
\* connection that has joined and is still open (at both ends), and none for
\* a closed connection.
C1_RegistryMatchesConnections ==
    \A c \in Conns :
        /\ (clientId[c] # Null /\ readyState[c] = "OPEN" /\ cliOpen[c])
              => Cardinality(EntriesOf(clients, c)) = 1
        /\ readyState[c] = "CLOSED" => EntriesOf(clients, c) = {}

\* C3: a sweep removes every entry that was not marked alive since the sweep
\* before and leaves every other entry unmarked; each peer that remains
\* registered with an open socket is sent exactly one UserLeft for the
\* evicted peer; and the close event of a connection the sweep terminated
\* sends no further UserLeft.
C3_SweepEvicts ==
    Sweep =>
        /\ \A i \in DOMAIN clients :
              IF clients[i].isAlive
              THEN Has(clients', clients[i].userId) /\ ~MapGet(clients', clients[i].userId).isAlive
              ELSE ~Has(clients', clients[i].userId)
        /\ \A i \in DOMAIN clients, j \in DOMAIN clients' :
              (~clients[i].isAlive /\ readyState'[clients'[j].ws] = "OPEN")
                  => Cardinality(SentNow(out', clients'[j].ws, "UserLeft", clients[i].userId)) = 1

C3_CloseIsSilent ==
    \A c \in evicted :
        CloseEvent(c) => \A d \in Conns : SentNow(out', d, "UserLeft", clientId[c]) = {}

C3_EvictedOnce == [][C3_SweepEvicts /\ C3_CloseIsSilent]_vars

\* C6: a CursorUpdate, ActiveFileChange, DocEdit, FileCreate, FileDelete,
\* FileRename or FileSave received from a joined peer P is sent exactly once
\* to every registered peer other than P whose socket is open, to nobody
\* else, and never back to P.
C6_Recipient(d, u) ==
    \E i \in DOMAIN clients :
        clients[i].ws = d /\ clients[i].userId # u /\ readyState[d] = "OPEN"

C6_RelayedToOthersOnce ==
    [][\A c \in Conns, t \in RelayTypes :
          (clientId[c] # Null /\ ClientMessage(c, t)) =>
              /\ \A d \in Conns :
                    /\ Len(out'[d]) = IF C6_Recipient(d, clientId[c]) THEN 1 ELSE 0
                    /\ \A i \in DOMAIN out'[d] :
                          out'[d][i].type = t /\ out'[d][i].userId = clientId[c]
              /\ \A d \in Conns : owner[d] = owner[c] => out'[d] = <<>>]_vars

C6_Witness ==
    \E c \in Conns, d \in Conns :
        /\ c # d /\ clientId[c] # Null /\ clientId[d] # Null
        /\ out[c] = <<>>
        /\ Len(out[d]) = 1 /\ out[d][1].type \in RelayTypes /\ out[d][1].userId = clientId[c]

\* C7: on a Join from connection P the host sends exactly one JoinAck, to P
\* only, whose roster has the host's entry first and holds every registered
\* peer, P included; it sends one UserJoined to every other registered peer
\* whose socket is open and none to P.
C7_JoinAckAndNotice ==
    [][\A c \in Conns :
          Join(c) =>
              /\ Len(out'[c]) = 1
              /\ out'[c][1].type = "JoinAck" /\ out'[c][1].userId = owner[c]
              /\ out'[c][1].users[1].userId = HostId
              /\ Len(out'[c][1].users) = 1 + Len(clients')
              /\ {out'[c][1].users[i].userId : i \in 2..Len(out'[c][1].users)}
                    = {clients'[i].userId : i \in DOMAIN clients'}
              /\ \E i \in DOMAIN clients' : clients'[i].userId = owner[c] /\ clients'[i].ws = c
              /\ \A d \in Conns \ {c} :
                    /\ \A i \in DOMAIN out'[d] :
                          out'[d][i].type = "UserJoined" /\ out'[d][i].userId = owner[c]
                    /\ Len(out'[d]) = IF EntriesOf(clients', d) # {} /\ readyState[d] = "OPEN"
                                      THEN 1 ELSE 0]_vars

C7_Witness ==
    \E c \in Conns, d \in Conns :
        /\ c # d
        /\ Len(out[c]) = 1 /\ out[c][1].type = "JoinAck" /\ Len(out[c][1].users) = 3
        /\ Len(out[d]) = 1 /\ out[d][1].type = "UserJoined"

\* C8: the messages the host sends reach every connection in the order in
\* which the host handled them: along each connection's stream, a message
\* created by an earlier handler (or earlier in the same handler) comes first.
C8_Before(a, b) == a.n < b.n \/ (a.n = b.n /\ a.k < b.k)

C2_NoEchoOfRemoteEdit ==
    \A i \in DOMAIN emitted : emitted[i].cause # "remote"

\* C4: the version stored for a path never decreases, over any sequence of
\* local edits and applied remote edits.
C4_VersionsNeverDecrease ==
    [][\A p \in DocPaths : documentVersions'[p] >= documentVersions[p]]_vars

(***************************************************************************)
(* Claims about the initial file synchronization                           *)
(***************************************************************************)
\* C5: in an initial sync with a non-empty toDownload the completion
\* callback has not run while a requested path is pending, has run exactly
\* once when none is, and runs in exactly the steps in which the pending
\* set becomes empty, whatever FileContent messages arrive and in whatever
\* order.
C5_CompletesOnceWhenEmpty ==
    [][Len(toDownload') > 0 =>
          /\ pendingFiles' # {} => completions' = 0
          /\ (phase' = "syncing" /\ pendingFiles' = {}) => completions' = 1
          /\ completions' <= 1
          /\ completions' # completions <=> (pendingFiles # {} /\ pendingFiles' = {})]_vars

C5_Witness ==
    /\ phase = "syncing"
    /\ Len(toDownload) >= 2
    /\ completions = 1
    /\ arrivals > Len(toDownload)
    /\ \A p \in SyncPaths : writing[p] = 0

(***************************************************************************)
(* Claims about the sweep and the heartbeat                                *)
(***************************************************************************)
\* C9, as stated: a client that stays connected and none of whose
\* heartbeats is lost is never removed by the sweep, whatever the offset
\* between its heartbeat timer and the host's sweep timer.
C9_NeverSwept ==
    /\ BeatConn \notin evicted
    /\ clientId[BeatConn] # Null => Has(clients, BeatUser)

\* C9, amended: a client that stays connected and each of whose heartbeats
\* reaches the host less than SweepPeriod - BeatPeriod (5 s) after it was
\* sent is never removed by the sweep, whatever the offset between the two
\* timers.
C9_PromptBeatsKeepAlive ==
    slowest < SweepPeriod - BeatPeriod =>
        /\ BeatConn \notin evicted
        /\ clientId[BeatConn] # Null => Has(clients, BeatUser)

C9_Witness ==
    /\ beats = MaxBeats
    /\ flight = <<>>
    /\ slowest = SweepPeriod - BeatPeriod - 1
    /\ Has(clients, BeatUser)
    /\ ~MapGet(clients, BeatUser).isAlive

(***************************************************************************)
(* Claims about the client's reconnect policy                              *)
(***************************************************************************)
\* the reconnect attempt a pending timer stands for
Scheduled == IF reconnectTimer THEN 1 ELSE 0

\* C10, as stated: the client makes at most 10 reconnect attempts without a
\* JoinAck arriving in between, and schedules no timer after the 10th.
C10_AtMostTenWithoutJoinAck ==
    sinceAck + Scheduled <= maxReconnectAttempts

\* C10, amended: the client makes at most 10 reconnect attempts without a
\* socket opening in between, and schedules no timer after the 10th.
C10_AtMostTenWithoutOpen ==
    sinceOpen + Scheduled <= maxReconnectAttempts

C10_Witness ==
    /\ sinceOpen = maxReconnectAttempts
    /\ reconnectAttempts = maxReconnectAttempts
    /\ sock = "CLOSED"
    /\ shouldReconnect
    /\ ~reconnectTimer

\* the delays of the backoff schedule, in ms, by attempt
BackoffSchedule ==
    <<2000, 4000, 8000, 16000, 30000, 30000, 30000, 30000, 30000, 30000>>

\* C11: the k-th consecutive reconnect attempt (k = 1..10) is scheduled with
\* the delay 2000, 4000, 8000, 16000 ms and 30000 ms from the fifth on: while
\* a reconnect timer is pending for the attempt after sinceOpen attempts, its
\* delay is the entry of the schedule for that attempt.
C11_DelayFollowsSchedule ==
    reconnectTimer =>
        /\ sinceOpen + 1 \in DOMAIN BackoffSchedule
        /\ delay = BackoffSchedule[sinceOpen + 1]

C11_Witness ==
    /\ reconnectTimer
    /\ sinceOpen + 1 = maxReconnectAttempts
    /\ delay = 30000

\* C12: the 'open' handler sets the attempt counter to zero, so the counter
\* is zero while the client is connected, the close of a connected socket
\* schedules the first delay of the schedule again, and the counter counts
\* the attempts made since the last open (which the cap then limits to 10).
C12_OpenResetsBackoff ==
    [][/\ SocketOpens => reconnectAttempts' = 0
       /\ connected' => reconnectAttempts' = 0
       /\ (connected /\ shouldReconnect /\ SocketCloses) =>
             (reconnectTimer' /\ reconnectAttempts' = 1 /\ delay' = BackoffSchedule[1])
       /\ reconnectTimer' => reconnectAttempts' = sinceOpen' + 1]_vars

\* ten attempts made after a reconnect that opened a socket
C12_Witness ==
    /\ sinceOpen = maxReconnectAttempts
    /\ sinceAck > sinceOpen
    /\ sock = "CLOSED"
    /\ ~reconnectTimer
    /\ shouldReconnect

\* C13: after disconnect() no handler sends a Heartbeat, no reconnect attempt
\* is started and no socket opens, and no timer is pending, whatever was
\* pending when it was called.
C13_DisconnectIsFinal ==
    [][~shouldReconnect =>
          /\ \A i \in DOMAIN wire' : wire'[i] # "Heartbeat"
          /\ sinceOpen' = sinceOpen
          /\ sinceAck' = sinceAck
          /\ sock' \notin {"CONNECTING", "OPEN"}
          /\ ~reconnectTimer' /\ ~heartbeatTimer']_vars

\* disconnect() was called while a reconnect was under way, and the close
\* event of the socket has been handled since
C13_Witness ==
    /\ ~shouldReconnect
    /\ sock = "CLOSED"
    /\ reconnectAttempts > 0
    /\ sinceOpen > 0

\* the users that are live on the host: the host's own entry and the registry
LiveUsers == getAllUsers(clients)

\* C14: after any sequence of joins and leaves no two live users, the host
\* included, hold the same colour, unless every colour of the palette is
\* held by a live user.
C14_LiveColorsDistinct ==
    \/ \A i, j \in DOMAIN LiveUsers :
          i # j => LiveUsers[i].color # LiveUsers[j].color
    \/ {LiveUsers[i].color : i \in DOMAIN LiveUsers} = 0..(PaletteSize - 1)

\* the manifest the host sent
RemoteManifest == generateManifest(hostTree)

\* C19: compareManifest puts a path in toDownload iff the remote manifest
\* holds it and the local one lacks it or holds it with another hash, puts a
\* path in toDelete iff the local manifest holds it and the remote one does
\* not, and the two results are disjoint.
C19_CompareManifest ==
    phase # "idle" =>
        /\ \A p \in SyncPaths :
              /\ p \in Range(toDownload) <=>
                    /\ RemoteManifest[p] # 0
                    /\ localManifest[p] = 0 \/ localManifest[p] # RemoteManifest[p]
              /\ p \in Range(toDelete) <=>
                    /\ localManifest[p] # 0
                    /\ RemoteManifest[p] = 0
        /\ Range(toDownload) \cap Range(toDelete) = {}

\* a comparison that found a file to fetch because its hash differs, a
\* file to delete, and nothing else
C19_Witness ==
    /\ phase = "comparing"
    /\ toDownload = <<1>>
    /\ toDelete = <<2>>
    /\ localManifest[1] # 0

\* C20: when the completion callback is called, the manifest of the
\* client's files equals the manifest the host sent.
C20_CompleteMeansEqual ==
    [][completions' > completions => generateManifest(clientTree') = RemoteManifest']_vars

\* C17: every call suppressPath(p) keeps p suppressed throughout the 3
\* seconds that follow it, also when an earlier call's timer for p is still
\* pending: while the 3 s after the last call for p have not passed, p is in
\* the suppression set.
C17_SuppressedForThreeSeconds ==
    \A p \in SyncPaths : window[p] > 0 => isSuppressed(suppressedPaths, p)

\* C18: a created or deleted file-watch event for a path that is in the
\* suppression set when it is handled makes the handler send nothing, on
\* the host and on a client.
C18_SuppressedEventIsSilent ==
    (/\ lastEvent.type \in {"created", "deleted"}
     /\ isSuppressed(suppressedPaths, lastEvent.path)) => watchSent = <<>>

\* a client handled a created event for a suppressed path
C18_Witness ==
    /\ lastEvent.type = "created"
    /\ lastEvent.role = "client"
    /\ isSuppressed(suppressedPaths, lastEvent.path)
    /\ watchSent = <<>>

\* C15: the receipt of a message never makes the client send one: no
\* message the client sends to the host was caused by applying a received
\* DocEdit or FileSave.
C15_ReceiptSendsNothing ==
    \A i \in DOMAIN clientSend : clientSend[i].cause # "remote"

\* every message sent has been handled, and no join or leave is under way:
\* every connection is open at both ends and joined, or closed at both
Quiescent ==
    \A c \in Conns :
        /\ inbox[c] = <<>>
        /\ readyState[c] # "CLOSING"
        /\ cliOpen[c] <=> readyState[c] = "OPEN"
        /\ readyState[c] = "OPEN" => clientId[c] # Null

\* C16: in every quiescent state the userIds of each connected client's
\* cached roster are those of the host's roster, the host's entry and the
\* entries of the registry.
C16_RostersAgree ==
    Quiescent =>
        \A c \in Conns :
            cliOpen[c] => cachedUsers[owner[c]] = UserIds(getAllUsers(clients))

\* the concatenation of the paths of a sequence of FileRequests
RECURSIVE Concat(_)
Concat(reqs) == IF reqs = <<>> THEN <<>> ELSE Head(reqs) \o Concat(Tail(reqs))

\* C21: startInitialSync has deleted every path of toDelete when it issues
\* its FileRequests; each request carries between 1 and 10 paths, the
\* requests in order concatenate to toDownload, no path is requested twice,
\* and there are ceil(n / 10) of them.
C21_DeletesThenBatches ==
    [][requests' # requests =>
          /\ \A p \in Range(toDelete) : clientTree[p] = 0
          /\ \A b \in DOMAIN requests' :
                Len(requests'[b]) >= 1 /\ Len(requests'[b]) <= batchSize
          /\ Concat(requests') = toDownload
          /\ \A i, j \in DOMAIN toDownload : i # j => toDownload[i] # toDownload[j]
          /\ Len(requests') * batchSize >= Len(toDownload)
          /\ (Len(requests') - 1) * batchSize < Len(toDownload)]_vars

\* two full requests and one of a single path, after a deletion
C21_Witness ==
    /\ phase = "syncing"
    /\ Len(requests) = 3
    /\ Len(requests[3]) = 1
    /\ toDelete # <<>>

\* C22: with nothing to download startInitialSync calls the completion
\* callback once, in the step that ends its awaits, and sends no
\* FileRequest; no later FileContent or write calls it again.
C22_EmptyCompletesAtOnce ==
    [][/\ (phase = "comparing" /\ phase' # "comparing" /\ Len(toDownload) = 0) =>
             (phase' = "done" /\ completions' = completions + 1)
       /\ phase' = "done" =>
             (completions' = 1 /\ requests' = <<>> /\ ~syncCompleteCallback')]_vars

\* the sync completed while a FileContent that nobody requested is written
C22_Witness ==
    /\ phase = "done"
    /\ completions = 1
    /\ arrivals > 0
    /\ \E p \in SyncPaths : writing[p] > 0

\* C23: applyRemoteEdit of a DocEdit that carries the local userId changes
\* nothing: no call is started that would edit a buffer, the stored versions
\* are unchanged and applyingRemoteEdit is not set.
C23_OwnEditIsIgnored ==
    [][\A p \in DocPaths, v \in 1..MaxVersion :
          ApplyRemoteEdit(p, v, SelfId) =>
             /\ UNCHANGED <<documentVersions, applyingRemoteEdit, calls, dirty, graceTimers>>
             /\ emitted' = <<>>]_vars

\* an own edit came back after the user had typed, while no remote edit was
\* being applied
C23_Witness ==
    /\ ignored
    /\ ~applyingRemoteEdit
    /\ \E p \in DocPaths : documentVersions[p] > 0 /\ dirty[p]

\* C24: while applyingRemoteEdit is clear, a change notification of a local
\* edit yields exactly one DocEdit, with the local userId and the version
\* stored for the path plus one, which becomes the stored version.
C24_LocalEditSendsOne ==
    [][\A p \in DocPaths :
          (LocalChange(p) /\ ~applyingRemoteEdit) =>
             /\ emitted' = <<[path |-> p, version |-> documentVersions[p] + 1,
                              userId |-> SelfId, cause |-> "local"]>>
             /\ documentVersions'[p] = documentVersions[p] + 1]_vars

\* a local edit sent with the version after the one a remote edit stored
C24_Witness ==
    /\ Len(emitted) = 1
    /\ emitted[1].cause = "local"
    /\ emitted[1].version = 3
    /\ \E i \in DOMAIN calls :
          calls[i].pc = "done" /\ calls[i].notified /\ calls[i].version = 2

\* whatever its version, a DocEdit of another user starts a call, and the
\* call that applies it stores its version
VersionNeverRejects ==
    /\ \A p \in DocPaths, v \in 1..MaxVersion :
          ApplyRemoteEdit(p, v, PeerId) =>
             calls' = Append(calls, [pc |-> "opening", path |-> p, version |-> v,
                                     notified |-> FALSE])
    /\ \A i \in DOMAIN calls :
          ApplyResolves(i) => documentVersions'[calls[i].path] = calls[i].version

\* a call commits its edit after every call delivered before it
CommitsInDeliveryOrder ==
    \A i \in DOMAIN calls :
        ChangeEvent(i) => \A j \in DOMAIN calls : j > i => ~calls[j].notified

C29_RemoteSavePersistsIffDirty ==
    [][\A p \in DocPaths, o \in BOOLEAN :
          ApplyRemoteSave(p, o) =>
             /\ dirty[p] => (~dirty'[p] /\ Len(fileSaves') = 1 /\ fileSaves'[1].path = p)
             /\ ~dirty[p] => (~dirty'[p] /\ fileSaves' = <<>>)
             /\ \A q \in DocPaths \ {p} : dirty'[q] = dirty[q]
             /\ UNCHANGED <<documentVersions, applyingRemoteEdit, calls, graceTimers>>
             /\ emitted' = <<>>]_vars

\* a FileSave saved the document while a remote edit was being applied
C29_Witness ==
    /\ Len(fileSaves) = 1
    /\ fileSaves[1].cause = "remote"
    /\ applyingRemoteEdit
    /\ \E i \in DOMAIN calls : calls[i].pc = "applying"

\* no two entries of a roster have the same userId
Distinct(roster) ==
    \A i, j \in DOMAIN roster : i # j => roster[i].userId # roster[j].userId

\* C26: the roster getAllUsers returns, and the roster of every JoinAck,
\* never has two entries with the same userId, whatever userId the Join
\* messages carry.
C26_RosterHasNoDuplicates ==
    /\ Distinct(getAllUsers(clients))
    /\ \A c \in Conns : \A i \in DOMAIN out[c] :
          out[c][i].type = "JoinAck" => Distinct(out[c][i].users)

\* the frame of a text that is not JSON
Malformed == Frame(FALSE, FALSE, NoType, Null)

\* C27: deserializeMessage returns null for a frame that cannot be parsed,
\* and the host or client that receives the frame drops it: registry,
\* rosters and connection state stay as they are, nothing is sent, and the
\* connection stays open.
C27_MalformedFrameIsDropped ==
    [][/\ deserializeMessage(Malformed) = NullValue
       /\ \A c \in Conns :
             HostFrame(c, Malformed) =>
                /\ UNCHANGED <<clients, colorIndex, readyState, clientId, cliOpen,
                               cachedUsers, inbox>>
                /\ \A d \in Conns : out'[d] = <<>>
                /\ readyState'[c] = "OPEN"
       /\ \A c \in Conns :
             ClientFrame(c, Malformed) =>
                /\ UNCHANGED <<clients, readyState, clientId, cliOpen, cachedUsers, inbox>>
                /\ cliOpen'[c]]_vars

\* a malformed frame was dropped while two peers were joined, both with a
\* cached roster
C27_Witness ==
    /\ lastFrame = Malformed
    /\ Len(clients) = 2
    /\ \A i \in DOMAIN clients :
          /\ readyState[clients[i].ws] = "OPEN"
          /\ clients[i].userId \in Users
          /\ cachedUsers[clients[i].userId] # {}

\* C28: a frame that parses to a value whose type is no message kind is
\* skipped: the host changes no state and sends nothing to any peer, and a
\* client changes no state.
C28_UnknownTagIsSkipped ==
    [][\A f \in Frames :
          (f.parses /\ f.truthy /\ f.type \notin KnownTypes) =>
             \A c \in Conns :
                /\ HostFrame(c, f) =>
                      /\ UNCHANGED <<clients, colorIndex, readyState, clientId>>
                      /\ \A d \in Conns : out'[d] = <<>>
                /\ ClientFrame(c, f) => UNCHANGED cachedUsers]_vars

\* C30: once listen() has failed because the port is in use, start() is
\* rejected and not resolved, the session mode is 'none', the sweep timer
\* is not running and the registry holds no peer; the mode is 'none' also
\* after startHost has handled the rejection.
C30_FailedListenLeavesNothing ==
    /\ (portInUse /\ startState \notin {"idle", "listening"}) =>
          /\ startState = "rejected"
          /\ mode = "none"
          /\ ~heartbeatInterval
          /\ clients = <<>>
          /\ \A c \in Conns : readyState[c] = "NONE"
    /\ startState = "idle" => (mode = "none" /\ ~heartbeatInterval /\ clients = <<>>)

\* start() has rejected because the port is in use
C30_Witness ==
    /\ portInUse
    /\ startState = "rejected"

C32_Base64IffNulInHead ==
    message # NoMessage =>
       /\ message.encoding \in {"base64", "utf8"}
       /\ message.encoding = "base64" <=>
             \E i \in 0..8191 : i \in buffer.zeros /\ i < buffer.length
       /\ (buffer.zeros # {} /\ \A i \in buffer.zeros : i >= 8192) =>
             message.encoding = "utf8"

\* a file with zero bytes, none of them among the first 8192, was sent as
\* utf8
C32_Witness ==
    /\ message.encoding = "utf8"
    /\ buffer.zeros = {8192, MaxLength - 1}
    /\ buffer.length = MaxLength

\* C33, its safety half: the guard is cleared only when every
\* applyRemoteEdit that set it finished at least 50 ms ago, that is when no
\* call is still applying and no 50 ms timer of a finished call is pending.
C33_GuardHeldForGracePeriod ==
    [][(applyingRemoteEdit /\ ~applyingRemoteEdit') =>
          /\ graceTimers' = 0
          /\ \A i \in DOMAIN calls' : calls'[i].pc # "applying"]_vars

\* whether the registry marks user u alive
MarkedAlive(reg, u) == Has(reg, u) /\ MapGet(reg, u).isAlive

\* C34: a registry entry becomes marked alive only in the Join of its peer
\* and in the Heartbeat branch run for a connection that joined as that
\* peer; a relayed message (DocEdit, CursorUpdate, a file message) leaves
\* every mark as it is; and a sweep leaves every entry that survives it
\* unmarked.
C34_AliveOnlyByJoinOrHeartbeat ==
    [][/\ \A u \in Users :
             (MarkedAlive(clients', u) /\ ~MarkedAlive(clients, u)) =>
                \E c \in Conns : clientId'[c] = u /\ (Join(c) \/ Heartbeat(c))
       /\ \A c \in Conns, t \in RelayTypes :
             ClientMessage(c, t) =>
                /\ DOMAIN clients' = DOMAIN clients
                /\ \A i \in DOMAIN clients :
                      /\ clients'[i].userId = clients[i].userId
                      /\ clients'[i].isAlive = clients[i].isAlive
       /\ Sweep => \A i \in DOMAIN clients' : ~clients'[i].isAlive]_vars

\* an unmarked peer's CursorUpdate has been relayed and the peer is still
\* unmarked
C34_Witness ==
    \E i \in DOMAIN clients :
        /\ ~clients[i].isAlive
        /\ clients[i].cursor = "pos"
        /\ \E d \in Conns : \E k \in DOMAIN out[d] :
              out[d][k].type = "CursorUpdate" /\ out[d][k].userId = clients[i].userId

\* C35: while the connection stays open, every initial sync eventually
\* calls its completion callback, also when a file of the manifest is gone
\* from the host before its request is served or a write fails on the
\* client.
C35_SyncEventuallyCompletes == <>(completions > 0)

\* C36: at any time at most one session, host or client, is active or
\* being started.
C36_OneSessionAtATime == ~(HostActive /\ ClientActive)

\* C37: one save by the user gives rise to finitely many FileSave messages:
\* the session never sends more than SaveLimit of them, and from some point
\* on none is on its way, whatever documents are dirty and wherever the
\* edits fall.
C37_SavesDieOut == [](savesSent <= SaveLimit) /\ <>[]SaveQuiet

\* the user's save on one client made the host and the other client save
\* too, and everything sent has been delivered
C37_Witness ==
    /\ humanSaved
    /\ savesSent >= 3 * PerSave
    /\ SaveQuiet
    /\ \A p \in SavePeers : ~unsaved[p]

\* C38: the client sends no DocEdit, FileSave, FileCreate or FileDelete to
\* the host before the completion callback of its initial sync has fired.
C38_SilentUntilSynced ==
    completions = 0 => \A t \in LocalTypes : localSent[t] = 0

\* changes were made on the client while files of its sync were still
\* pending, and nothing was sent for them
C38_Witness ==
    /\ phase = "syncing"
    /\ pendingFiles # {}
    /\ completions = 0
    /\ unheard = MaxChanges
    /\ \A t \in LocalTypes : localSent[t] = 0

\* C39: a message other than Join that arrives on a connection that has not
\* sent a Join is ignored: the registry and the connections stay as they
\* are, and nothing is sent to any peer or back to the sender.
C39_UnjoinedIsIgnored ==
    [][\A c \in Conns, t \in KnownTypes \ {"Join"} :
          (clientId[c] = Null /\ (IF t = "Heartbeat" THEN Heartbeat(c) ELSE ClientMessage(c, t)))
             => /\ UNCHANGED <<clients, colorIndex, readyState, clientId>>
                /\ \A d \in Conns : out'[d] = <<>>]_vars

\* a DocEdit arrived on a connection that had not joined while two peers
\* were registered, and nothing has been sent
C39_Witness ==
    /\ heardOn.type = "DocEdit"
    /\ ~heardOn.joined
    /\ heardOn.peers = 2
    /\ \A d \in Conns : out[d] = <<>>

\* C40: the cached roster of a client never has two entries with the same
\* userId, whatever JoinAck, UserJoined and UserLeft messages the host
\* sends it.
C40_CachedRosterDistinct ==
    \A u \in Users : \A i, j \in DOMAIN clientUsers[u] :
        i # j => clientUsers[u][i] # clientUsers[u][j]
====
